---------------------------- MODULE Spec2Model ----------------------------
(***************************************************************************)
(* A model of the mastering bot: the analysis report, the decision engines *)
(* (smart_auto.py and bot.py), the filter-chain builders, the parser of    *)
(* the engine's diagnostic text, the two-pass loudness normalizer run by   *)
(* the request handlers of bot.py, the loudness range, and the settings of *)
(* the users with the handlers that write them.                            *)
(*                                                                         *)
(* Specifications: Spec (a file in auto mode), SpecBot (a file or a link   *)
(* with the settings handlers interleaved), SpecOverlap (two messages of   *)
(* one user), SpecUsers (the settings handlers of two users), SpecAuto     *)
(* (analysis, decision, chain), SpecParse (the parser) and SpecLra (the    *)
(* loudness range).                                                        *)
(*                                                                         *)
(* Numbers.  A level or gain is an integer number of hundredths (1 = 0.01  *)
(* dB or LU).  The measured integrated loudness, which the code never      *)
(* rounds, is in thousandths (1 = 0.001 LU), and so are the stereo         *)
(* correlation and width ratio.  The value of a linear interpolation is    *)
(* kept as an exact fraction [n, d] until the code rounds it.  A numeral   *)
(* in a filter chain or in the engine's report is the text of the integer  *)
(* it denotes.                                                             *)
(***************************************************************************)
EXTENDS Integers, Sequences, FiniteSets, TLC

VARIABLES
    \* ---- the analysis / decision / chain pipeline of one track
    engine,     \* "smart" (auto_analysis + smart_auto), "bot" (bot.py), "none"
    measured,   \* what the signal processing measured on the decoded audio
    report,     \* the analysis report built from it
    params,     \* the decided mastering parameters
    chain,      \* the filter chain built from them
    aphase      \* "measured" | "analyzed" | "decided" | "chained" | "off"

VARIABLES
    \* ---- one call of the parser of the engine's diagnostic text
    ptext,      \* the text given to _extract_last_json_block
    presult,    \* what it returned
    pphase      \* "input" | "returned" | "off"

VARIABLES
    \* ---- the requests handled by bot.on_audio, for users whose settings
    \* ---- have auto on
    req,        \* per request: the handler's position and its locals
    norm,       \* per request: the current call of ffmpeg_loudnorm_two_pass
    procs       \* per request: the engine processes it has spawned, in order

VARIABLES
    \* ---- one computation of the loudness range of a trimmed buffer
    lra_impl,   \* "analyze_mastering" | "auto_analysis" | "none"
    lra_in,     \* the buffer: its length, its windows, its integrated loudness
    lra_out,    \* the LRA returned, in twentieths of a LU
    lphase      \* "input" | "returned" | "off"

VARIABLES
    \* ---- the module-level state of the bot, and what reaches it from outside
    USER_STATE, \* user id -> the dict the entry refers to, None when absent
    PRESETS,    \* the content of presets.json, as loaded at startup
    env         \* the uploads and the engine outcomes a request can meet

autoVars == <<engine, measured, report, params, chain, aphase>>
parseVars == <<ptext, presult, pphase>>
reqVars == <<req, norm, procs>>
lraVars == <<lra_impl, lra_in, lra_out, lphase>>
botVars == <<USER_STATE, PRESETS, env>>

vars == <<autoVars, parseVars, reqVars, lraVars, botVars>>

\* what an action of one part of the model leaves alone
notAuto == <<parseVars, reqVars, lraVars, botVars>>
notParse == <<autoVars, reqVars, lraVars, botVars>>
notReq == <<autoVars, parseVars, lraVars, botVars>>
notLra == <<autoVars, parseVars, reqVars, botVars>>
notBot == <<autoVars, parseVars, lraVars, reqVars>>

None == [none |-> TRUE]

\* a part of the model that a specification does not exercise stays in its
\* idle state
AutoOff ==
    /\ engine = "none" /\ measured = None /\ report = None
    /\ params = None /\ chain = <<>> /\ aphase = "off"

ParseOff == ptext = <<>> /\ presult = None /\ pphase = "off"

LraOff == lra_impl = "none" /\ lra_in = None /\ lra_out = 0 /\ lphase = "off"

BotOff == USER_STATE = <<>> /\ PRESETS = None /\ env = None

\* the requests
Reqs == {"r1"}

NoReply == [kind |-> "none", text |-> <<>>, file |-> ""]

IdleRequest ==
    [pc |-> "idle", user |-> "", kind |-> "", file |-> None,
     inten |-> "", tone |-> "", fmtk |-> "", auto |-> TRUE,
     A |-> None, P |-> None, chain |-> <<>>, exc |-> <<>>,
     reply |-> NoReply, sent |-> <<>>]

IdleNormalizer ==
    [run |-> 0, nstate |-> "Idle", steps |-> <<>>, out_args |-> "",
     pass1_chain |-> <<>>, text |-> <<>>, js |-> None, pass2_ln |-> <<>>]

ReqOff ==
    /\ req = [r \in Reqs |-> IdleRequest]
    /\ norm = [r \in Reqs |-> IdleNormalizer]
    /\ procs = [r \in Reqs |-> <<>>]

(***************************************************************************)
(* Bounds of the model.                                                    *)
(***************************************************************************)
\* integrated loudness is drawn from -6, -8, ... , -2*LoudnessSteps LU
LoudnessSteps == 17
\* and, around a rounding boundary of the target, from -20.022, -20.018, ... ,
\* -20.022 + 0.004*FineSteps LU
FineSteps == 3
\* a diagnostic text given to the parser has at most MaxTextLen tokens
MaxTextLen == 6
\* a buffer whose loudness range is computed lasts at most MaxSeconds seconds
MaxSeconds == 7
\* tilt is drawn from 0, +-0.01 and +-1, +-2, ... , +-2^TiltSteps dB
TiltSteps == 5

(***************************************************************************)
(* numpy / Python arithmetic                                               *)
(***************************************************************************)
Frac(x) == [n |-> x, d |-> 1]

\* q < c, q > c for a fraction q (d > 0) and an integer c
FracLess(q, c) == q.n < c * q.d
FracGreater(q, c) == q.n > c * q.d

\* np.clip on an integer
np_clip(x, lo, hi) == IF x < lo THEN lo ELSE IF x > hi THEN hi ELSE x

\* np.clip on a fraction
np_clip_frac(q, lo, hi) ==
    IF FracLess(q, lo) THEN Frac(lo)
    ELSE IF FracGreater(q, hi) THEN Frac(hi)
    ELSE q

\* np.interp(x, xp, fp): the end values outside [xp[1], xp[Len]], linear
\* between two neighbouring control points inside
np_interp(x, xp, fp) ==
    IF x <= xp[1] THEN Frac(fp[1])
    ELSE IF x >= xp[Len(xp)] THEN Frac(fp[Len(fp)])
    ELSE LET j == CHOOSE i \in 1..(Len(xp) - 1) : xp[i] <= x /\ x < xp[i + 1]
             dx == xp[j + 1] - xp[j]
             dy == fp[j + 1] - fp[j]
         IN  [n |-> fp[j] * dx + (x - xp[j]) * dy, d |-> dx]

\* the integer nearest to n/d (d > 0), a tie going to the even one
RoundHalfEven(n, d) ==
    LET q == n \div d
        r == n - q * d
    IN  IF 2 * r < d THEN q
        ELSE IF 2 * r > d THEN q + 1
        ELSE IF q % 2 = 0 THEN q ELSE q + 1

\* round(x, 2): to a whole number of hundredths
round_2(q) == RoundHalfEven(q.n, q.d)

\* round(x, 1): to a whole number of tenths, in hundredths
round_1(q) == 10 * RoundHalfEven(q.n, 10 * q.d)

\* round(x, 3) of a value in thousandths
round_3(x) == RoundHalfEven(x, 1)

\* str(x) of a number
Fmt(x) == ToString(x)


(***************************************************************************)
(* What the signal processing measures (librosa, pyloudnorm, numpy): the   *)
(* inputs of the model.  -1000000 and -24000 stand for the loudness of a   *)
(* buffer no block of which passes the gate (-inf) and for the level of    *)
(* digital silence; 1000000 for a loudness far above any control point.    *)
(***************************************************************************)
LoudnessGrid ==
    {-2000 * k : k \in 3..LoudnessSteps} \cup {-20022 + 4 * j : j \in 0..FineSteps}
        \cup {-1000000, 1000000}
TiltGrid == {0, 1, -1} \cup {s * 100 * (2 ^ j) : s \in {-1, 1}, j \in 0..TiltSteps}
LraGrid == {500, 1000, 1500, 2000}
PeakGrid == {-24000, -11, -10}
RmsGrid == {-24000, -2400, -2006, -2004, -2000, -1600, 0}

\* auto_analysis.analyze_file: the quantities it computes from the samples
SmartMeasurements ==
    [loudness : LoudnessGrid, LRA : LraGrid, tp_dbfs : PeakGrid,
     rms_db : RmsGrid, tilt : TiltGrid, sub_minus_bass : {300, 301},
     corr : {900, 980}, width_ratio : {50, 100}]

\* bot.analyze_track_pro: the quantities it computes from the samples
BotMeasurements ==
    [I : LoudnessGrid, rms_db : RmsGrid, tp_dbfs : PeakGrid,
     tilt : TiltGrid, sub_minus_bass : {200, 201}]

(***************************************************************************)
(* auto_analysis.analyze_file, from the measured quantities on             *)
(***************************************************************************)
\* mutant: either condition alone flags the track as narrow
stereo_narrow_either(corr, width_ratio) == corr > 900 \/ width_ratio < 100

stereo_narrow_flag(corr, width_ratio) == corr > 900 /\ width_ratio < 100

analyze_file(m) ==
    LET stereo_narrow == stereo_narrow_flag(m.corr, m.width_ratio)
        sub_excess == m.sub_minus_bass > 300
    IN  [LUFS          |-> m.loudness,
         LRA           |-> round_2(Frac(m.LRA)),
         TruePeak_dBFS |-> round_2(Frac(m.tp_dbfs)),
         RMS_dB        |-> round_2(Frac(m.rms_db)),
         Tilt_dB       |-> round_2(Frac(m.tilt)),
         SubExcess     |-> sub_excess,
         StereoWidth   |-> round_3(m.width_ratio),
         StereoNarrow  |-> stereo_narrow]

(***************************************************************************)
(* bot.analyze_track_pro, from the measured quantities on                  *)
(***************************************************************************)
analyze_track_pro(m) ==
    LET sub_excess == m.sub_minus_bass > 200
    IN  [sr |-> 48000, I |-> m.I, rms_db |-> m.rms_db, tp_dbfs |-> m.tp_dbfs,
         tilt |-> m.tilt, sub_excess |-> sub_excess]

(***************************************************************************)
(* smart_auto.decide_smart_params                                          *)
(***************************************************************************)
\* mutant: the clamp of the target is left out
smart_target_I_unclamped(I) ==
    np_interp(I, <<-30000, -22000, -16000, -12000, -10000>>,
                 <<-1800, -1600, -1450, -1300, -1200>>)

smart_target_I(I) ==
    np_clip_frac(np_interp(I, <<-30000, -22000, -16000, -12000, -10000>>,
                              <<-1800, -1600, -1450, -1300, -1200>>),
                 -1650, -1150)

smart_target_LRA(LRA) ==
    np_clip(IF LRA >= 2000 THEN 800 ELSE IF LRA >= 1000 THEN 600 ELSE 500,
            400, 1000)

smart_target_TP(tp) ==
    np_clip(IF tp >= -10 THEN -100 ELSE -50, -300, 0)

\* mutant: the shelf table reaches twice as far
smart_high_shelf_gain_steep(tilt) == np_interp(tilt, <<-2000, 0, 2000>>, <<600, 0, -600>>)

smart_high_shelf_gain(tilt) == np_interp(tilt, <<-2000, 0, 2000>>, <<300, 0, -300>>)

smart_low_shelf_gain(tilt) == np_interp(tilt, <<-2000, 0, 2000>>, <<-250, 0, 200>>)

\* mutant: the second band gets a ratio of its own, above the third band's
smart_comp_odd_band(LRA, rms_db) ==
    LET sel == IF LRA >= 1500 \/ rms_db < -2400 THEN [ratio |-> 130, thr |-> rms_db + 600]
               ELSE IF LRA >= 800 /\ rms_db < -2000 THEN [ratio |-> 190, thr |-> rms_db + 400]
               ELSE IF rms_db < -1600 THEN [ratio |-> 180, thr |-> rms_db + 200]
               ELSE [ratio |-> 200, thr |-> rms_db + 0]
    IN  [ratio |-> round_2(Frac(sel.ratio)), threshold_db |-> round_1(Frac(sel.thr)),
         attack |-> 20, release |-> 150]

smart_comp(LRA, rms_db) ==
    LET sel == IF LRA >= 1500 \/ rms_db < -2400 THEN [ratio |-> 130, thr |-> rms_db + 600]
               ELSE IF LRA >= 800 /\ rms_db < -2000 THEN [ratio |-> 150, thr |-> rms_db + 400]
               ELSE IF rms_db < -1600 THEN [ratio |-> 180, thr |-> rms_db + 200]
               ELSE [ratio |-> 200, thr |-> rms_db + 0]
    IN  [ratio |-> round_2(Frac(sel.ratio)), threshold_db |-> round_1(Frac(sel.thr)),
         attack |-> 20, release |-> 150]

decide_smart_params(analysis) ==
    LET I == analysis.LUFS
        LRA == analysis.LRA
        tp == analysis.TruePeak_dBFS
        tilt == np_clip(analysis.Tilt_dB, -2000, 2000)
        sub_excess == analysis.SubExcess
        stereo_narrow == analysis.StereoNarrow
        tone == [low_shelf  |-> [g |-> round_2(smart_low_shelf_gain(tilt)),
                                 f |-> 250, width |-> 100],
                 high_shelf |-> [g |-> round_2(smart_high_shelf_gain(tilt)),
                                 f |-> 8000, width |-> 80],
                 hpf |-> IF sub_excess THEN TRUE ELSE FALSE]
        stereo_widen == IF stereo_narrow THEN TRUE ELSE FALSE
    IN  [loudnorm |-> [I |-> round_2(smart_target_I(I)),
                       TP |-> smart_target_TP(tp),
                       LRA |-> smart_target_LRA(LRA)],
         tone |-> tone,
         comp |-> smart_comp(LRA, analysis.RMS_dB),
         stereo_widen |-> stereo_widen]

(***************************************************************************)
(* bot.decide_params_from_analysis                                         *)
(***************************************************************************)
\* mutant: two control values are swapped
bot_target_I_swapped(I) ==
    np_clip_frac(np_interp(I, <<-22000, -16000, -12000, -10000>>,
                              <<-1600, -1300, -1450, -1200>>),
                 -1650, -1200)

bot_target_I(I) ==
    np_clip_frac(np_interp(I, <<-22000, -16000, -12000, -10000>>,
                              <<-1600, -1450, -1300, -1200>>),
                 -1650, -1200)

\* mutant: the high shelf follows the tilt instead of countering it
bot_high_g_following(tilt) == np_interp(tilt, <<-400, 0, 400>>, <<-250, 0, 250>>)

bot_high_g(tilt) == np_interp(tilt, <<-400, 0, 400>>, <<250, 0, -250>>)

\* mutant: the low shelf is cut, not raised, for a bright track
bot_low_g_cut(tilt) == np_interp(tilt, <<-400, 0, 400>>, <<-150, 0, -100>>)

bot_low_g(tilt) == np_interp(tilt, <<-400, 0, 400>>, <<-150, 0, 100>>)

bot_comp(rms_db) ==
    LET sel == IF rms_db < -2400 THEN [ratio |-> 140, thr |-> rms_db + 600]
               ELSE IF rms_db < -2000 THEN [ratio |-> 160, thr |-> rms_db + 400]
               ELSE IF rms_db < -1600 THEN [ratio |-> 180, thr |-> rms_db + 200]
               ELSE [ratio |-> 220, thr |-> rms_db + 100]
    IN  [ratio |-> round_2(Frac(sel.ratio)), threshold_db |-> round_1(Frac(sel.thr)),
         attack |-> 20, release |-> 180]

decide_params_from_analysis(A) ==
    LET I == A.I
        rms_db == A.rms_db
        tilt == np_clip(A.tilt, -400, 400)
        sub_excess == A.sub_excess
        tone == [low_shelf  |-> [g |-> round_2(bot_low_g(tilt)), f |-> 250, width |-> 100],
                 high_shelf |-> [g |-> round_2(bot_high_g(tilt)), f |-> 6500, width |-> 80],
                 hpf |-> sub_excess]
    IN  [loudnorm |-> [I |-> round_2(bot_target_I(I)), TP |-> -120, LRA |-> 600],
         tone |-> tone,
         comp |-> bot_comp(rms_db)]

(***************************************************************************)
(* Filter chains.  A chain is the sequence of its comma-separated stages;  *)
(* a stage is its name and the sequence of its key=value arguments.        *)
(***************************************************************************)
Stage(name, args) == [name |-> name, args |-> args]

highpass_stage == Stage("highpass", << <<"f", "30">>, <<"width", "0.7">> >>)

bass_stage(lf) ==
    Stage("bass", << <<"g", Fmt(lf.g)>>, <<"f", Fmt(lf.f)>>, <<"w", Fmt(lf.width)>> >>)

treble_stage(hf) ==
    Stage("treble", << <<"g", Fmt(hf.g)>>, <<"f", Fmt(hf.f)>>, <<"w", Fmt(hf.width)>> >>)

acompressor_stage(comp) ==
    Stage("acompressor", << <<"ratio", Fmt(comp.ratio)>>,
                            <<"threshold", Fmt(comp.threshold_db) \o "dB">>,
                            <<"attack", Fmt(comp.attack)>>,
                            <<"release", Fmt(comp.release)>> >>)

stereowiden_stage ==
    Stage("stereowiden", << <<"delay", "10">>, <<"drymix", "0.9">>,
                            <<"crossfeed", "0.4">>, <<"feedback", "0.4">> >>)

loudnorm_stage(ln) ==
    Stage("loudnorm", << <<"I", Fmt(ln.I)>>, <<"TP", Fmt(ln.TP)>>, <<"LRA", Fmt(ln.LRA)>>,
                         <<"print_format", "summary">> >>)

\* a shelf is present when tone.get(...) is a non-empty dict
HasShelf(tone, key) == key \in DOMAIN tone /\ DOMAIN tone[key] # {}

(***************************************************************************)
(* smart_auto.build_smart_chain                                            *)
(***************************************************************************)
\* mutant: the widening stage is appended after the normalizer
build_smart_chain_widen_last(P) ==
    LET tone == P.tone
        f1 == IF tone.hpf THEN <<highpass_stage>> ELSE <<>>
        f2 == Append(f1, bass_stage(tone.low_shelf))
        f3 == Append(f2, treble_stage(tone.high_shelf))
        f4 == Append(f3, acompressor_stage(P.comp))
        f5 == Append(f4, loudnorm_stage(P.loudnorm))
    IN  IF P.stereo_widen THEN Append(f5, stereowiden_stage) ELSE f5

build_smart_chain(P) ==
    LET tone == P.tone
        f1 == IF tone.hpf THEN <<highpass_stage>> ELSE <<>>
        f2 == IF HasShelf(tone, "low_shelf")
              THEN Append(f1, bass_stage(tone.low_shelf)) ELSE f1
        f3 == IF HasShelf(tone, "high_shelf")
              THEN Append(f2, treble_stage(tone.high_shelf)) ELSE f2
        f4 == Append(f3, acompressor_stage(P.comp))
        f5 == IF "stereo_widen" \in DOMAIN P /\ P.stereo_widen
              THEN Append(f4, stereowiden_stage) ELSE f4
    IN  Append(f5, loudnorm_stage(P.loudnorm))

(***************************************************************************)
(* bot.build_chain_from_params                                             *)
(***************************************************************************)
build_chain_from_params(P) ==
    LET tone == P.tone
        e1 == IF tone.hpf THEN <<highpass_stage>> ELSE <<>>
        e2 == IF HasShelf(tone, "low_shelf")
              THEN Append(e1, bass_stage(tone.low_shelf)) ELSE e1
        e3 == IF HasShelf(tone, "high_shelf")
              THEN Append(e2, treble_stage(tone.high_shelf)) ELSE e2
        eq_chain == IF e3 # <<>> THEN e3 ELSE <<Stage("anull", <<>>)>>
    IN  eq_chain \o <<acompressor_stage(P.comp), loudnorm_stage(P.loudnorm)>>

(***************************************************************************)
(* presets.json and bot.build_ffmpeg_chain.  The file is read at startup   *)
(* (bot.py 36-38); what the code reads of it fixes its shape: "defaults"   *)
(* with the keys intensity, tone and format, and perhaps auto; "intensity" *)
(* and "tone" tables indexed by the keys of the keyboards.                 *)
(***************************************************************************)
IntensityTable ==
    [low |-> [I |-> -1600, TP |-> -150, LRA |-> 900,
              comp |-> [ratio |-> 150, threshold_db |-> -2000, attack |-> 20, release |-> 250]],
     balanced |-> [I |-> -1400, TP |-> -100, LRA |-> 700,
                   comp |-> [ratio |-> 200, threshold_db |-> -1800, attack |-> 15, release |-> 200]],
     high |-> [I |-> -1100, TP |-> -100, LRA |-> 500,
               comp |-> [ratio |-> 300, threshold_db |-> -1600, attack |-> 10, release |-> 150]]]

ToneTable ==
    [warm |-> [low_shelf |-> [g |-> 150, f |-> 120, width |-> 70],
               high_shelf |-> [g |-> -100, f |-> 9000, width |-> 50]],
     balanced |-> [low_shelf |-> <<>>, high_shelf |-> <<>>],
     bright |-> [low_shelf |-> <<>>,
                 high_shelf |-> [g |-> 150, f |-> 9000, width |-> 50]]]

\* the "defaults" of the file, without and with an "auto" entry
DefaultsVariants ==
    {[intensity |-> "balanced", tone |-> "balanced", format |-> "wav16"],
     [intensity |-> "balanced", tone |-> "balanced", format |-> "wav16", auto |-> TRUE]}

PresetsJson(defaults) ==
    [defaults |-> defaults, intensity |-> IntensityTable, tone |-> ToneTable]

build_ffmpeg_chain(inten_key, tone_key) ==
    LET inten == PRESETS.intensity[inten_key]
        tone == PRESETS.tone[tone_key]
        e1 == IF HasShelf(tone, "low_shelf") THEN <<bass_stage(tone.low_shelf)>> ELSE <<>>
        e2 == IF HasShelf(tone, "high_shelf")
              THEN Append(e1, treble_stage(tone.high_shelf)) ELSE e1
        eq_chain == IF e2 # <<>> THEN e2 ELSE <<Stage("anull", <<>>)>>
    IN  eq_chain \o <<acompressor_stage(inten.comp), loudnorm_stage(inten)>>

(***************************************************************************)
(* Python dicts and the entries of USER_STATE.  An entry refers to a dict  *)
(* object: the user's own dict, or, after toggle_auto has stored the       *)
(* object it got from USER_STATE.get(uid, PRESETS["defaults"]), the        *)
(* defaults dict of PRESETS itself.                                        *)
(***************************************************************************)
dict_get(d, k, default) == IF k \in DOMAIN d THEN d[k] ELSE default

dict_set(d, k, v) == [x \in DOMAIN d \cup {k} |-> IF x = k THEN v ELSE d[x]]

Own(d) == [ref |-> "own", d |-> d]
Shared == [ref |-> "defaults"]

\* the dict an entry refers to
Referent(entry) == IF entry.ref = "defaults" THEN PRESETS.defaults ELSE entry.d

\* USER_STATE.get(uid) or PRESETS["defaults"]; also
\* USER_STATE.get(uid, PRESETS["defaults"]), no stored dict being empty
user_settings(uid) ==
    IF USER_STATE[uid] = None THEN PRESETS.defaults ELSE Referent(USER_STATE[uid])

(***************************************************************************)
(* The engine's diagnostic text.  A text is a sequence of tokens: an       *)
(* opening brace, a closing brace, a JSON member "k": "v" (with the comma  *)
(* that separates it from its neighbours), a key "k": that awaits an       *)
(* object as its value, or a run of other characters, which holds no brace *)
(* and which JSON does not accept inside an object.                        *)
(***************************************************************************)
LB == [t |-> "{", k |-> "", v |-> ""]
RB == [t |-> "}", k |-> "", v |-> ""]
Mem(k, v) == [t |-> "member", k |-> k, v |-> v]
Key(k) == [t |-> "key", k |-> k, v |-> ""]
Text(v) == [t |-> "text", k |-> "", v |-> v]

(***************************************************************************)
(* json.loads of a chunk that starts with a brace.  The dict it returns is *)
(* the set of its entries [path, v]: the path of keys from the top and the *)
(* scalar value, or "{}" for a key bound to an object.  A key met again    *)
(* replaces its earlier value.                                             *)
(***************************************************************************)
NoObject == [ok |-> FALSE, val |-> {}]

IsPrefix(p, q) == Len(p) <= Len(q) /\ SubSeq(q, 1, Len(p)) = p

DictPut(d, path, v) ==
    {e \in d : ~IsPrefix(path, e.path)} \cup {[path |-> path, v |-> v]}

RECURSIVE ParseMembers(_, _, _, _)
ParseMembers(c, i, prefix, acc) ==
    IF i > Len(c) THEN [ok |-> FALSE, next |-> i, val |-> {}]
    ELSE IF c[i].t = "}" THEN [ok |-> TRUE, next |-> i + 1, val |-> acc]
    ELSE IF c[i].t = "member"
         THEN ParseMembers(c, i + 1, prefix, DictPut(acc, Append(prefix, c[i].k), c[i].v))
    ELSE IF c[i].t = "key" /\ i + 1 <= Len(c) /\ c[i + 1].t = "{"
         THEN LET inner == ParseMembers(c, i + 2, Append(prefix, c[i].k),
                                        DictPut(acc, Append(prefix, c[i].k), "{}"))
              IN  IF inner.ok THEN ParseMembers(c, inner.next, prefix, inner.val)
                  ELSE inner
    ELSE [ok |-> FALSE, next |-> i, val |-> {}]

json_loads(chunk) ==
    IF Len(chunk) >= 2 /\ chunk[1].t = "{"
    THEN LET r == ParseMembers(chunk, 2, <<>>, {})
         IN  IF r.ok /\ r.next = Len(chunk) + 1 THEN [ok |-> TRUE, val |-> r.val]
             ELSE NoObject
    ELSE NoObject

(***************************************************************************)
(* bot._extract_last_json_block: the loop over the characters, with its    *)
(* locals start, depth and last_obj                                        *)
(***************************************************************************)
RECURSIVE ScanFrom(_, _, _, _, _)
ScanFrom(text, i, start, depth, last_obj) ==
    IF i > Len(text) THEN last_obj
    ELSE IF text[i].t = "{"
         THEN ScanFrom(text, i + 1, IF depth = 0 THEN i ELSE start, depth + 1, last_obj)
    ELSE IF text[i].t = "}"
         THEN IF depth > 0
              THEN IF depth - 1 = 0 /\ start # -1
                   THEN LET obj == json_loads(SubSeq(text, start, i))
                        IN  ScanFrom(text, i + 1, -1, 0, IF obj.ok THEN obj ELSE last_obj)
                   ELSE ScanFrom(text, i + 1, start, depth - 1, last_obj)
              ELSE ScanFrom(text, i + 1, start, depth, last_obj)
    ELSE ScanFrom(text, i + 1, start, depth, last_obj)

\* mutant: a block that fails to parse forgets the earlier result
RECURSIVE ScanFromForgetting(_, _, _, _, _)
ScanFromForgetting(text, i, start, depth, last_obj) ==
    IF i > Len(text) THEN last_obj
    ELSE IF text[i].t = "{"
         THEN ScanFromForgetting(text, i + 1, IF depth = 0 THEN i ELSE start,
                                 depth + 1, last_obj)
    ELSE IF text[i].t = "}"
         THEN IF depth > 0
              THEN IF depth - 1 = 0 /\ start # -1
                   THEN ScanFromForgetting(text, i + 1, -1, 0,
                                           json_loads(SubSeq(text, start, i)))
                   ELSE ScanFromForgetting(text, i + 1, start, depth - 1, last_obj)
              ELSE ScanFromForgetting(text, i + 1, start, depth, last_obj)
    ELSE ScanFromForgetting(text, i + 1, start, depth, last_obj)

extract_forgetting(text) == ScanFromForgetting(text, 1, -1, 0, NoObject)

_extract_last_json_block(text) == ScanFrom(text, 1, -1, 0, NoObject)

(***************************************************************************)
(* One call of the parser on a text of the engine.                         *)
(***************************************************************************)
ParseAlphabet == {LB, RB, Mem("a", "1"), Mem("b", "2"), Key("n"), Text("x")}

RECURSIVE TextsUpTo(_)
TextsUpTo(n) ==
    IF n = 0 THEN {<<>>}
    ELSE LET shorter == TextsUpTo(n - 1)
         IN  shorter \cup {Append(s, c) : s \in {u \in shorter : Len(u) = n - 1},
                                          c \in ParseAlphabet}

InitParse ==
    /\ ptext \in TextsUpTo(MaxTextLen)
    /\ presult = None
    /\ pphase = "input"
    /\ AutoOff /\ ReqOff /\ LraOff /\ BotOff

ExtractLastJsonBlock ==
    /\ pphase = "input"
    /\ presult' = _extract_last_json_block(ptext)
    /\ pphase' = "returned"
    /\ UNCHANGED ptext
    /\ UNCHANGED notParse

NextParse == ExtractLastJsonBlock

SpecParse == InitParse /\ [][NextParse]_vars

(***************************************************************************)
(* The loudness range: analyze_mastering.loudness_range_lra and lines      *)
(* 62-86 of auto_analysis.analyze_file.  A buffer is its length in whole   *)
(* seconds, the short-term loudness of each of its 3-second windows, taken *)
(* at 1-second hops, in LU, and its integrated loudness.  A window whose   *)
(* peak is below 1e-6 is "silent"; it is given to auto_analysis only,      *)
(* which skips it.  Percentiles and the LRA are in twentieths of a LU.     *)
(***************************************************************************)
Silent == -1000

\* the values of a sequence in ascending order
Sorted(q) ==
    [k \in 1..Len(q) |->
        CHOOSE v \in {q[i] : i \in 1..Len(q)} :
            /\ Cardinality({i \in 1..Len(q) : q[i] < v}) < k
            /\ k <= Cardinality({i \in 1..Len(q) : q[i] <= v})]

\* np.percentile(a, pct), linear interpolation between the two nearest ranks,
\* times 20
np_percentile(a, pct) ==
    LET srt == Sorted(a)
        pos == (Len(a) - 1) * pct          \* rank, from 0, times 100
        lo == pos \div 100
        r == pos % 100
        hi == IF r = 0 THEN lo ELSE lo + 1
    IN  (20 * 100 * srt[lo + 1] + 20 * r * (srt[hi + 1] - srt[lo + 1])) \div 100

\* the number of windows of a buffer: while i + win <= len(x), i += hop
WindowCount(seconds) == IF seconds < 3 THEN 0 ELSE seconds - 3 + 1

\* analyze_mastering.loudness_range_lra, from the short-term values on
loudness_range_lra(sts, I) ==
    IF sts = <<>> THEN 0
    ELSE LET kept == SelectSeq(sts, LAMBDA v : v > I - 20)
             gated == IF Len(kept) < 3 THEN sts ELSE kept
             p10 == np_percentile(gated, 10)
             p95 == np_percentile(gated, 95)
         IN  IF p95 - p10 > 0 THEN p95 - p10 ELSE 0

\* auto_analysis.analyze_file, lines 62-86, from the short-term values on
analyze_file_LRA(sts) ==
    LET short_terms == SelectSeq(sts, LAMBDA v : v # Silent)
    IN  IF short_terms = <<>> THEN 0
        ELSE np_percentile(short_terms, 95) - np_percentile(short_terms, 10)

ShortTermValues == {-40, -25, -12, -10}
IntegratedValues == {-14, -10}

RECURSIVE WindowsOf(_, _)
WindowsOf(n, values) ==
    IF n = 0 THEN {<<>>}
    ELSE {Append(q, v) : q \in WindowsOf(n - 1, values), v \in values}

Buffers(impl) ==
    {[seconds |-> d, sts |-> q, I |-> i] :
        d \in 0..MaxSeconds,
        q \in UNION {WindowsOf(WindowCount(n),
                               IF impl = "auto_analysis"
                               THEN ShortTermValues \cup {Silent} ELSE ShortTermValues)
                     : n \in 0..MaxSeconds},
        i \in IntegratedValues}

InitLra ==
    /\ lra_impl \in {"analyze_mastering", "auto_analysis"}
    /\ lra_in \in {b \in Buffers(lra_impl) : Len(b.sts) = WindowCount(b.seconds)}
    /\ lra_out = 0
    /\ lphase = "input"
    /\ AutoOff /\ ParseOff /\ ReqOff /\ BotOff

LoudnessRangeLra ==
    /\ lphase = "input" /\ lra_impl = "analyze_mastering"
    /\ lra_out' = loudness_range_lra(lra_in.sts, lra_in.I)
    /\ lphase' = "returned"
    /\ UNCHANGED <<lra_impl, lra_in>>
    /\ UNCHANGED notLra

AnalyzeFileLra ==
    /\ lphase = "input" /\ lra_impl = "auto_analysis"
    /\ lra_out' = analyze_file_LRA(lra_in.sts)
    /\ lphase' = "returned"
    /\ UNCHANGED <<lra_impl, lra_in>>
    /\ UNCHANGED notLra

NextLra == LoudnessRangeLra \/ AnalyzeFileLra

SpecLra == InitLra /\ [][NextLra]_vars

(***************************************************************************)
(* The pipeline of one track: measure, analyze, decide, build the chain.   *)
(***************************************************************************)
InitAuto ==
    /\ engine \in {"smart", "bot"}
    /\ measured \in IF engine = "smart" THEN SmartMeasurements ELSE BotMeasurements
    /\ report = None /\ params = None /\ chain = <<>>
    /\ aphase = "measured"
    /\ ParseOff /\ ReqOff /\ LraOff /\ BotOff

AnalyzeFile ==
    /\ aphase = "measured" /\ engine = "smart"
    /\ report' = analyze_file(measured)
    /\ aphase' = "analyzed"
    /\ UNCHANGED <<engine, measured, params, chain>>
    /\ UNCHANGED notAuto

AnalyzeTrackPro ==
    /\ aphase = "measured" /\ engine = "bot"
    /\ report' = analyze_track_pro(measured)
    /\ aphase' = "analyzed"
    /\ UNCHANGED <<engine, measured, params, chain>>
    /\ UNCHANGED notAuto

DecideSmartParams ==
    /\ aphase = "analyzed" /\ engine = "smart"
    /\ params' = decide_smart_params(report)
    /\ aphase' = "decided"
    /\ UNCHANGED <<engine, measured, report, chain>>
    /\ UNCHANGED notAuto

DecideParamsFromAnalysis ==
    /\ aphase = "analyzed" /\ engine = "bot"
    /\ params' = decide_params_from_analysis(report)
    /\ aphase' = "decided"
    /\ UNCHANGED <<engine, measured, report, chain>>
    /\ UNCHANGED notAuto

BuildSmartChain ==
    /\ aphase = "decided" /\ engine = "smart"
    /\ chain' = build_smart_chain(params)
    /\ aphase' = "chained"
    /\ UNCHANGED <<engine, measured, report, params>>
    /\ UNCHANGED notAuto

BuildChainFromParams ==
    /\ aphase = "decided" /\ engine = "bot"
    /\ chain' = build_chain_from_params(params)
    /\ aphase' = "chained"
    /\ UNCHANGED <<engine, measured, report, params>>
    /\ UNCHANGED notAuto

NextAuto ==
    \/ AnalyzeFile
    \/ AnalyzeTrackPro
    \/ DecideSmartParams
    \/ DecideParamsFromAnalysis
    \/ BuildSmartChain
    \/ BuildChainFromParams

SpecAuto == InitAuto /\ [][NextAuto]_vars

(***************************************************************************)
(* bot._force_print_format_json and the rewriting of the normalizer stage  *)
(* in bot.ffmpeg_loudnorm_two_pass, on chains as sequences of stages       *)
(***************************************************************************)
HasLoudnorm(c) == \E i \in 1..Len(c) : c[i].name = "loudnorm"

HasArg(stage, key) == \E i \in 1..Len(stage.args) : stage.args[i][1] = key

\* [^,]*print_format= is greedy: the last print_format of the stage
LastArgIndex(stage, key) ==
    CHOOSE i \in 1..Len(stage.args) :
        /\ stage.args[i][1] = key
        /\ \A j \in (i + 1)..Len(stage.args) : stage.args[j][1] # key

\* mutant: the measuring pass runs the normalizer stage alone
force_print_format_json_alone(c) ==
    IF ~HasLoudnorm(c) THEN c
    ELSE LET ln == c[CHOOSE i \in 1..Len(c) : c[i].name = "loudnorm"]
         IN  <<Stage("loudnorm",
                     SelectSeq(ln.args, LAMBDA a : a[1] # "print_format")
                        \o << <<"print_format", "json">> >>)>>

_force_print_format_json(c) ==
    IF ~HasLoudnorm(c) THEN c
    ELSE IF \E i \in 1..Len(c) : HasArg(c[i], "print_format")
    THEN LET hits == {i \in 1..Len(c) : c[i].name = "loudnorm" /\ HasArg(c[i], "print_format")}
         IN  IF hits = {} THEN c
             ELSE LET first == CHOOSE i \in hits : \A j \in hits : i <= j
                      at == LastArgIndex(c[first], "print_format")
                  IN  [c EXCEPT ![first].args[at] = <<"print_format", "json">>]
    ELSE IF c[Len(c)].name = "loudnorm"
    THEN [c EXCEPT ![Len(c)].args = Append(@, <<"print_format", "json">>)]
    ELSE c

\* js.get(key, default) on the parsed block
JsGet(js, key, default) ==
    IF \E e \in js.val : e.path = <<key>>
    THEN (CHOOSE e \in js.val : e.path = <<key>>).v
    ELSE default

\* "if js": None and the empty dict are both false
Truthy(js) == js.ok /\ js.val # {}

\* the arguments of the stage written for the second pass; the defaults are
\* -14, -1.2, 7, -26 and 0, written in hundredths as every numeral of a chain
measured_args(js) ==
    << <<"I", JsGet(js, "target_i", JsGet(js, "input_i", "-1400"))>>,
       <<"TP", JsGet(js, "target_tp", JsGet(js, "input_tp", "-120"))>>,
       <<"LRA", JsGet(js, "target_lra", JsGet(js, "input_lra", "700"))>>,
       <<"measured_I", JsGet(js, "input_i", "-1400")>>,
       <<"measured_LRA", JsGet(js, "input_lra", "700")>>,
       <<"measured_TP", JsGet(js, "input_tp", "-120")>>,
       <<"measured_thresh", JsGet(js, "input_thresh", "-2600")>>,
       <<"offset", JsGet(js, "target_offset", "0")>>,
       <<"print_format", "summary">> >>

\* re.sub(r"loudnorm=[^,]*print_format=\w+", measured, chain)
sub_loudnorm(c, repl) ==
    [i \in 1..Len(c) |->
        IF c[i].name = "loudnorm" /\ HasArg(c[i], "print_format")
        THEN Stage("loudnorm",
                   repl \o SubSeq(c[i].args, LastArgIndex(c[i], "print_format") + 1,
                                      Len(c[i].args)))
        ELSE c[i]]

\* mutant: the stage is rewritten whatever the parser returned
pass2_chain_always(c, js) == sub_loudnorm(c, measured_args(js))

pass2_chain(c, js) == IF Truthy(js) THEN sub_loudnorm(c, measured_args(js)) ELSE c

\* mutant: the error names the pass and drops the engine's text
pass_failed_bare(pass, err) ==
    <<Text(IF pass = 1 THEN "ffmpeg pass1 failed: " ELSE "ffmpeg pass2 failed: ")>>

\* the message of the RuntimeError raised when a pass exits non-zero
pass_failed(pass, err) ==
    <<Text(IF pass = 1 THEN "ffmpeg pass1 failed: " ELSE "ffmpeg pass2 failed: ")>> \o err

output_args(fmt_key) ==
    IF fmt_key = "wav16" THEN "-ar 48000 -ac 2 -c:a pcm_s16le"
    ELSE IF fmt_key = "wav24" THEN "-ar 48000 -ac 2 -c:a pcm_s24le"
    ELSE IF fmt_key = "mp3_320" THEN "-ar 48000 -ac 2 -codec:a libmp3lame -b:a 320k"
    ELSE "-ar 48000 -ac 2 -c:a pcm_s16le"

(***************************************************************************)
(* What reaches the bot from outside: the uploads, the format of the       *)
(* user's settings, and what the engine writes to its diagnostic stream.   *)
(***************************************************************************)
TrackQuiet ==
    [I |-> -20000, rms_db |-> -2000, tp_dbfs |-> -10, tilt |-> 200, sub_minus_bass |-> 201]
TrackLoud ==
    [I |-> -12000, rms_db |-> -1600, tp_dbfs |-> -10, tilt |-> -100, sub_minus_bass |-> 200]

Uploads ==
    {[ext_ok |-> FALSE, too_big |-> FALSE, empty |-> FALSE, m |-> TrackQuiet],
     [ext_ok |-> TRUE, too_big |-> TRUE, empty |-> FALSE, m |-> TrackQuiet],
     [ext_ok |-> TRUE, too_big |-> FALSE, empty |-> TRUE, m |-> TrackQuiet],
     [ext_ok |-> TRUE, too_big |-> FALSE, empty |-> FALSE, m |-> TrackQuiet],
     [ext_ok |-> TRUE, too_big |-> FALSE, empty |-> FALSE, m |-> TrackLoud]}

Formats == {"wav16", "mp3_320"}

\* the report of ffmpeg's loudnorm with print_format=json
ReportBlock ==
    <<LB, Mem("input_i", "-2050"), Mem("input_tp", "-310"), Mem("input_lra", "800"),
      Mem("input_thresh", "-3060"), Mem("output_i", "-1400"), Mem("target_offset", "30"), RB>>

TextNoBlock == <<Text("size=N/A time=00:03:20.00")>>
TextReport == <<Text("[Parsed_loudnorm_3]")>> \o ReportBlock
TextReportThenBroken == TextReport \o <<LB, Text("frame="), RB>>
TextBroken == <<LB, Text("input_i : "), RB>>
TextEmptyBlock == <<LB, RB>>
TextPartial == <<LB, Mem("input_i", "-2050"), RB>>

MeasureTexts ==
    {TextNoBlock, TextReport, TextReportThenBroken, TextBroken, TextEmptyBlock, TextPartial}

TextSummary == <<Text("Input Integrated: -20.5 LUFS")>>

FailTexts == {<<Text("Invalid argument")>>, <<Text("Conversion failed!")>>}

\* what a request can meet: every upload and every text, or, where the
\* settings change or two requests run side by side, one of each kind
FullEnv == [uploads |-> Uploads, measure_texts |-> MeasureTexts, fail_texts |-> FailTexts]

LeanEnv ==
    [uploads |-> {u \in Uploads : u.m = TrackQuiet /\ u.ext_ok /\ ~u.too_big /\ ~u.empty},
     measure_texts |-> {TextReport},
     fail_texts |-> {<<Text("Invalid argument")>>}]

\* the exit status and the diagnostic text an engine process can end with
EngineOutcomes(pass) ==
    {[rc |-> 0, err |-> t] : t \in IF pass = 1 THEN env.measure_texts ELSE {TextSummary}}
    \cup {[rc |-> 1, err |-> t] : t \in env.fail_texts}

(***************************************************************************)
(* bot.on_audio with bot.ffmpeg_loudnorm_two_pass, one step per stretch of *)
(* the handler between two awaits.                                         *)
(***************************************************************************)
Last(q) == q[Len(q)]

Spawn(r, pass, af) ==
    Append(procs[r], [run |-> norm[r].run, pass |-> pass, af |-> af,
                      out |-> IF pass = 1 THEN "-f null -" ELSE norm[r].out_args,
                      status |-> "running", rc |-> 0, err |-> <<>>])

Raise(r, message) == [req EXCEPT ![r].pc = "raised", ![r].exc = message]

\* the locals inten, tone, fmtk, auto of a handler, read from the settings
\* of the user (lines 450-451 and 516-517)
ReadSettings(rq, uid) ==
    LET st == user_settings(uid)
    IN  [rq EXCEPT !.inten = st.intensity, !.tone = st.tone, !.fmtk = st.format,
                   !.auto = dict_get(st, "auto", TRUE)]

\* lines 434-453: the checks of the file, the read of the settings, the
\* first reply
OnAudio(r) ==
    /\ req[r].pc = "idle"
    /\ \E uid \in DOMAIN USER_STATE, u \in env.uploads :
        LET rq == [req[r] EXCEPT !.user = uid, !.kind = "audio", !.file = u]
        IN  req' = [req EXCEPT ![r] =
                      IF ~u.ext_ok
                      THEN [rq EXCEPT !.pc = "finished",
                                      !.reply = [kind |-> "text",
                                                 text |-> <<Text("send .mp3 or .wav")>>,
                                                 file |-> ""]]
                      ELSE IF u.too_big
                      THEN [rq EXCEPT !.pc = "finished",
                                      !.reply = [kind |-> "text",
                                                 text |-> <<Text("too big, send a link")>>,
                                                 file |-> ""]]
                      ELSE [ReadSettings(rq, uid) EXCEPT !.pc = "accepted"]]
    /\ UNCHANGED <<norm, procs>>
    /\ UNCHANGED notReq

\* lines 501-505: a text that is no link is passed over, a link is accepted
OnText(r) ==
    /\ req[r].pc = "idle"
    /\ \E uid \in DOMAIN USER_STATE, is_link \in BOOLEAN :
        req' = [req EXCEPT ![r].user = uid, ![r].kind = "link",
                           ![r].pc = IF is_link THEN "link_accepted" ELSE "finished"]
    /\ UNCHANGED <<norm, procs>>
    /\ UNCHANGED notReq

\* lines 506-517: the download by link succeeds or raises; the settings are
\* read after it
DownloadLink(r) ==
    /\ req[r].pc = "link_accepted"
    /\ \E ok \in BOOLEAN, u \in {x \in env.uploads : x.ext_ok /\ ~x.too_big} :
        req' = IF ok
               THEN [req EXCEPT ![r] =
                       [ReadSettings([@ EXCEPT !.file = u], req[r].user)
                            EXCEPT !.pc = "downloaded"]]
               ELSE Raise(r, <<Text("download failed")>>)
    /\ UNCHANGED <<norm, procs>>
    /\ UNCHANGED notReq

\* lines 459-460: the download succeeds or raises
Download(r) ==
    /\ req[r].pc = "accepted"
    /\ \E ok \in BOOLEAN :
        req' = IF ok THEN [req EXCEPT ![r].pc = "downloaded"]
               ELSE Raise(r, <<Text("download failed")>>)
    /\ UNCHANGED <<norm, procs>>
    /\ UNCHANGED notReq

\* mutant: the analysis does not look at the length of the trimmed audio
AnalyzeAndDecideUnchecked(r) ==
    /\ req[r].pc = "downloaded"
    /\ req[r].auto
    /\ LET A == analyze_track_pro(req[r].file.m)
           P == decide_params_from_analysis(A)
       IN  /\ req' = [req EXCEPT ![r].pc = "two_pass", ![r].A = A, ![r].P = P,
                                 ![r].chain = build_chain_from_params(P)]
           /\ norm' = [norm EXCEPT ![r] =
                         [IdleNormalizer EXCEPT !.run = 1,
                                                !.out_args = output_args(req[r].fmtk)]]
    /\ UNCHANGED procs
    /\ UNCHANGED notReq

\* lines 464-469: analysis, decision, chain, and the entry of the first run
AnalyzeAndDecide(r) ==
    /\ req[r].pc = "downloaded"
    /\ req[r].auto
    /\ IF req[r].file.empty
       THEN /\ req' = Raise(r, <<Text("Empty audio after trim")>>)
            /\ UNCHANGED norm
       ELSE LET A == analyze_track_pro(req[r].file.m)
                P == decide_params_from_analysis(A)
            IN  /\ req' = [req EXCEPT ![r].pc = "two_pass", ![r].A = A, ![r].P = P,
                                      ![r].chain = build_chain_from_params(P)]
                /\ norm' = [norm EXCEPT ![r] =
                              [IdleNormalizer EXCEPT !.run = 1,
                                                     !.out_args = output_args(req[r].fmtk)]]
    /\ UNCHANGED procs
    /\ UNCHANGED notReq

\* lines 224-230: the first pass is spawned
StartMeasurePass(r) ==
    /\ req[r].pc \in {"two_pass", "two_pass_mp3"}
    /\ norm[r].nstate = "Idle"
    /\ IF ~HasLoudnorm(req[r].chain)
       THEN /\ req' = Raise(r, <<Text("Chain must end with loudnorm")>>)
            /\ norm' = [norm EXCEPT ![r].nstate = "Failed", ![r].steps = Append(@, "Failed")]
            /\ UNCHANGED procs
       ELSE LET pass1_chain == _force_print_format_json(req[r].chain)
            IN  /\ norm' = [norm EXCEPT ![r].nstate = "MeasurePass",
                                        ![r].steps = Append(@, "MeasurePass"),
                                        ![r].pass1_chain = pass1_chain]
                /\ procs' = [procs EXCEPT ![r] = Spawn(r, 1, pass1_chain)]
                /\ UNCHANGED req
    /\ UNCHANGED notReq

\* the engine process of the request terminates
EngineExit(r) ==
    /\ procs[r] # <<>>
    /\ Last(procs[r]).status = "running"
    /\ \E o \in EngineOutcomes(Last(procs[r]).pass) :
        procs' = [procs EXCEPT ![r][Len(procs[r])] =
                    [@ EXCEPT !.status = "exited", !.rc = o.rc, !.err = o.err]]
    /\ UNCHANGED <<req, norm>>
    /\ UNCHANGED notReq

\* mutant: the first pass is not awaited
MeasureDoneEarly(r) ==
    /\ norm[r].nstate = "MeasurePass"
    /\ norm' = [norm EXCEPT ![r].nstate = "ParseMeasurement",
                            ![r].steps = Append(@, "ParseMeasurement"),
                            ![r].text = Last(procs[r]).err]
    /\ UNCHANGED <<req, procs>>
    /\ UNCHANGED notReq

\* lines 231-235: p1.communicate() has returned
MeasureDone(r) ==
    /\ norm[r].nstate = "MeasurePass"
    /\ Last(procs[r]).status = "exited"
    /\ IF Last(procs[r]).rc # 0
       THEN /\ req' = Raise(r, pass_failed(1, Last(procs[r]).err))
            /\ norm' = [norm EXCEPT ![r].nstate = "Failed", ![r].steps = Append(@, "Failed")]
       ELSE /\ norm' = [norm EXCEPT ![r].nstate = "ParseMeasurement",
                                    ![r].steps = Append(@, "ParseMeasurement"),
                                    ![r].text = Last(procs[r]).err]
            /\ UNCHANGED req
    /\ UNCHANGED procs
    /\ UNCHANGED notReq

\* lines 236-255: the text is parsed, the chain of the second pass is
\* written and the second pass is spawned
ParseMeasurement(r) ==
    /\ norm[r].nstate = "ParseMeasurement"
    /\ LET js == _extract_last_json_block(norm[r].text)
           pass2_ln == pass2_chain(req[r].chain, js)
           entered == IF Truthy(js) THEN "ApplyPass" ELSE "Degraded"
       IN  /\ norm' = [norm EXCEPT ![r].nstate = entered,
                                   ![r].steps = Append(@, entered),
                                   ![r].js = js,
                                   ![r].pass2_ln = pass2_ln]
           /\ procs' = [procs EXCEPT ![r] = Spawn(r, 2, pass2_ln)]
    /\ UNCHANGED req
    /\ UNCHANGED notReq

\* lines 256-258: p2.communicate() has returned
ApplyDone(r) ==
    /\ norm[r].nstate \in {"ApplyPass", "Degraded"}
    /\ Last(procs[r]).status = "exited"
    /\ IF Last(procs[r]).rc # 0
       THEN /\ req' = Raise(r, pass_failed(2, Last(procs[r]).err))
            /\ norm' = [norm EXCEPT ![r].nstate = "Failed", ![r].steps = Append(@, "Failed")]
       ELSE /\ norm' = [norm EXCEPT ![r].nstate = "Done", ![r].steps = Append(@, "Done")]
            /\ UNCHANGED req
    /\ UNCHANGED procs
    /\ UNCHANGED notReq

\* process_audio, lines 290-298: the one engine process of a preset render
SpawnPreset(r, run, fmt_key) ==
    Append(procs[r], [run |-> run, pass |-> 0,
                      af |-> build_ffmpeg_chain(req[r].inten, req[r].tone),
                      out |-> output_args(fmt_key),
                      status |-> "running", rc |-> 0, err |-> <<>>])

\* lines 473-475: with auto off, process_audio is entered
ProcessAudio(r) ==
    /\ req[r].pc = "downloaded"
    /\ ~req[r].auto
    /\ req' = [req EXCEPT ![r].pc = "preset"]
    /\ procs' = [procs EXCEPT ![r] = SpawnPreset(r, 1, req[r].fmtk)]
    /\ UNCHANGED norm
    /\ UNCHANGED notReq

\* process_audio, lines 299-301: proc.communicate() has returned
ProcessAudioDone(r) ==
    /\ req[r].pc \in {"preset", "preset_mp3"}
    /\ Last(procs[r]).status = "exited"
    /\ req' = IF Last(procs[r]).rc # 0
              THEN Raise(r, <<Text("ffmpeg failed: ")>> \o Last(procs[r]).err)
              ELSE [req EXCEPT ![r].pc = IF req[r].pc = "preset"
                                         THEN "rendered" ELSE "rendered_mp3"]
    /\ UNCHANGED <<norm, procs>>
    /\ UNCHANGED notReq

\* mutant: the settings are read again before the MP3 is rendered
SizeCheckRereading(r) ==
    /\ \/ req[r].pc = "two_pass" /\ norm[r].nstate = "Done"
       \/ req[r].pc = "rendered"
    /\ \E oversize \in BOOLEAN :
        LET rq == ReadSettings(req[r], req[r].user)
        IN  IF oversize /\ rq.auto
            THEN /\ req' = [req EXCEPT ![r] = [rq EXCEPT !.pc = "two_pass_mp3"]]
                 /\ norm' = [norm EXCEPT ![r] =
                               [IdleNormalizer EXCEPT !.run = 2,
                                                      !.out_args = output_args("mp3_320")]]
                 /\ UNCHANGED procs
            ELSE IF oversize
            THEN /\ req' = [req EXCEPT ![r] = [rq EXCEPT !.pc = "preset_mp3"]]
                 /\ procs' = [procs EXCEPT ![r] =
                                Append(@, [run |-> 2, pass |-> 0,
                                           af |-> build_ffmpeg_chain(rq.inten, rq.tone),
                                           out |-> output_args("mp3_320"),
                                           status |-> "running", rc |-> 0, err |-> <<>>])]
                 /\ UNCHANGED norm
            ELSE LET out == IF req[r].fmtk \in {"wav16", "wav24"}
                            THEN "mastered.wav" ELSE "mastered.mp3"
                 IN  /\ req' = [req EXCEPT ![r].pc = "finished",
                                           ![r].reply = [kind |-> "document", text |-> <<>>,
                                                         file |-> out],
                                           ![r].sent = Append(@, out)]
                     /\ UNCHANGED <<norm, procs>>
    /\ UNCHANGED notReq

\* lines 477-496: the size of the output decides between the second run,
\* to MP3 with the same chain, and the reply with the rendered file
SizeCheck(r) ==
    /\ \/ req[r].pc = "two_pass" /\ norm[r].nstate = "Done"
       \/ req[r].pc = "rendered"
    /\ \E oversize \in BOOLEAN :
        IF oversize /\ req[r].auto
        THEN /\ req' = [req EXCEPT ![r].pc = "two_pass_mp3"]
             /\ norm' = [norm EXCEPT ![r] =
                           [IdleNormalizer EXCEPT !.run = 2,
                                                  !.out_args = output_args("mp3_320")]]
             /\ UNCHANGED procs
        ELSE IF oversize
        THEN /\ req' = [req EXCEPT ![r].pc = "preset_mp3"]
             /\ procs' = [procs EXCEPT ![r] = SpawnPreset(r, 2, "mp3_320")]
             /\ UNCHANGED norm
        ELSE LET out == IF req[r].fmtk \in {"wav16", "wav24"}
                        THEN "mastered.wav" ELSE "mastered.mp3"
             IN  /\ req' = [req EXCEPT ![r].pc = "finished",
                                       ![r].reply = [kind |-> "document", text |-> <<>>,
                                                     file |-> out],
                                       ![r].sent = Append(@, out)]
                 /\ UNCHANGED <<norm, procs>>
    /\ UNCHANGED notReq

\* lines 484-490: the reply with the MP3 of the second run
SendMp3(r) ==
    /\ \/ req[r].pc = "two_pass_mp3" /\ norm[r].nstate = "Done"
       \/ req[r].pc = "rendered_mp3"
    /\ req' = [req EXCEPT ![r].pc = "finished",
                          ![r].reply = [kind |-> "document", text |-> <<>>,
                                        file |-> "mastered_320.mp3"],
                          ![r].sent = Append(@, "mastered_320.mp3")]
    /\ UNCHANGED <<norm, procs>>
    /\ UNCHANGED notReq

\* lines 497-498 and 553-554: the reply with the text of the exception
ReplyError(r) ==
    /\ req[r].pc = "raised"
    /\ req' = [req EXCEPT ![r].pc = "finished",
                          ![r].reply = [kind |-> "error",
                                        text |-> <<Text(IF req[r].kind = "link"
                                                        THEN "Link error: " ELSE "Error: ")>>
                                                 \o req[r].exc,
                                        file |-> ""]]
    /\ UNCHANGED <<norm, procs>>
    /\ UNCHANGED notReq

\* one user, auto mode on, any output format stored; the whole environment
Init ==
    /\ AutoOff /\ ParseOff /\ ReqOff /\ LraOff
    /\ PRESETS \in {PresetsJson(d) : d \in DefaultsVariants}
    /\ USER_STATE \in [{"u1"} -> {Own([intensity |-> PRESETS.defaults.intensity,
                                        tone |-> PRESETS.defaults.tone,
                                        format |-> f, auto |-> TRUE]) : f \in Formats}]
    /\ env = FullEnv

Next ==
    \E r \in Reqs :
        \/ OnAudio(r)
        \/ Download(r)
        \/ AnalyzeAndDecide(r)
        \/ StartMeasurePass(r)
        \/ EngineExit(r)
        \/ MeasureDone(r)
        \/ ParseMeasurement(r)
        \/ ApplyDone(r)
        \/ SizeCheck(r)
        \/ SendMp3(r)
        \/ ReplyError(r)

Spec == Init /\ [][Next]_vars

(***************************************************************************)
(* The commands and callbacks that write the settings (bot.py 344-429),    *)
(* and the bot as a whole: a message with a file or a link, and the        *)
(* settings handlers, interleaved at the awaits of its handler.            *)
(***************************************************************************)
Users == {"u1"}

IntensityKeys == {"balanced", "high"}
ToneKeys == {"balanced", "bright"}

\* USER_STATE[uid][key] = val: the dict the entry refers to is written; with
\* no entry the subscript raises KeyError and nothing is written
StoreKey(uid, key, val) ==
    IF USER_STATE[uid] = None
    THEN UNCHANGED <<USER_STATE, PRESETS>>
    ELSE IF USER_STATE[uid].ref = "defaults"
    THEN /\ PRESETS' = [PRESETS EXCEPT !.defaults = dict_set(@, key, val)]
         /\ UNCHANGED USER_STATE
    ELSE /\ USER_STATE' = [USER_STATE EXCEPT ![uid] = Own(dict_set(@.d, key, val))]
         /\ UNCHANGED PRESETS

start(uid) ==
    /\ USER_STATE' = [USER_STATE EXCEPT ![uid] =
                         Own([intensity |-> PRESETS.defaults.intensity,
                              tone |-> PRESETS.defaults.tone,
                              format |-> PRESETS.defaults.format,
                              auto |-> TRUE])]
    /\ UNCHANGED <<PRESETS, env>>
    /\ UNCHANGED notBot

settings_cmd(uid) ==
    /\ USER_STATE' = [USER_STATE EXCEPT ![uid] = Own(dict_set(PRESETS.defaults, "auto", TRUE))]
    /\ UNCHANGED <<PRESETS, env>>
    /\ UNCHANGED notBot

set_intensity(uid) ==
    /\ \E val \in IntensityKeys : StoreKey(uid, "intensity", val)
    /\ UNCHANGED env
    /\ UNCHANGED notBot

set_tone(uid) ==
    /\ \E val \in ToneKeys : StoreKey(uid, "tone", val)
    /\ UNCHANGED env
    /\ UNCHANGED notBot

set_fmt(uid) ==
    /\ \E key \in Formats : StoreKey(uid, "format", key)
    /\ UNCHANGED env
    /\ UNCHANGED notBot

\* st = USER_STATE.get(uid, PRESETS["defaults"]); st["auto"] = not
\* st.get("auto", False); USER_STATE[uid] = st
toggle_auto(uid) ==
    /\ LET st == user_settings(uid)
           flipped == ~dict_get(st, "auto", FALSE)
       IN  IF USER_STATE[uid] = None
           THEN /\ PRESETS' = [PRESETS EXCEPT !.defaults = dict_set(@, "auto", flipped)]
                /\ USER_STATE' = [USER_STATE EXCEPT ![uid] = Shared]
           ELSE StoreKey(uid, "auto", flipped)
    /\ UNCHANGED env
    /\ UNCHANGED notBot

\* the state at startup: USER_STATE = {}, PRESETS as loaded
InitBot ==
    /\ AutoOff /\ ParseOff /\ LraOff /\ ReqOff
    /\ USER_STATE = [uid \in Users |-> None]
    /\ PRESETS \in {PresetsJson(d) : d \in DefaultsVariants}
    /\ env = LeanEnv

NextBot ==
    \/ \E uid \in Users :
        \/ start(uid)
        \/ settings_cmd(uid)
        \/ set_intensity(uid)
        \/ set_tone(uid)
        \/ set_fmt(uid)
        \/ toggle_auto(uid)
    \/ \E r \in Reqs :
        \/ OnAudio(r)
        \/ OnText(r)
        \/ Download(r)
        \/ DownloadLink(r)
        \/ AnalyzeAndDecide(r)
        \/ ProcessAudio(r)
        \/ StartMeasurePass(r)
        \/ EngineExit(r)
        \/ MeasureDone(r)
        \/ ParseMeasurement(r)
        \/ ApplyDone(r)
        \/ ProcessAudioDone(r)
        \/ SizeCheck(r)
        \/ SendMp3(r)
        \/ ReplyError(r)

SpecBot == InitBot /\ [][NextBot]_vars

(***************************************************************************)
(* Two messages of one user, handled side by side: the dispatcher starts a *)
(* handler for each update and nothing in bot.py holds the second back     *)
(* while the first awaits.  The user has auto mode on and may store        *)
(* another output format meanwhile.                                        *)
(***************************************************************************)
TwoReqs == {"r1", "r2"}

InitOverlap ==
    /\ AutoOff /\ ParseOff /\ LraOff
    /\ req = [r \in TwoReqs |-> IdleRequest]
    /\ norm = [r \in TwoReqs |-> IdleNormalizer]
    /\ procs = [r \in TwoReqs |-> <<>>]
    /\ USER_STATE = [uid \in Users |-> None]
    /\ PRESETS \in {PresetsJson(d) : d \in DefaultsVariants}
    /\ env = LeanEnv

NextOverlap ==
    \/ \E uid \in Users :
        \/ start(uid)
        \/ set_fmt(uid)
    \/ \E r \in TwoReqs :
        \/ OnAudio(r)
        \/ OnText(r)
        \/ Download(r)
        \/ DownloadLink(r)
        \/ AnalyzeAndDecide(r)
        \/ StartMeasurePass(r)
        \/ EngineExit(r)
        \/ MeasureDone(r)
        \/ ParseMeasurement(r)
        \/ ApplyDone(r)
        \/ SizeCheck(r)
        \/ SendMp3(r)
        \/ ReplyError(r)

SpecOverlap == InitOverlap /\ [][NextOverlap]_vars

(***************************************************************************)
(* Two users and their commands and callbacks, in any order.  No request   *)
(* is in flight: what a request would use is what on_audio and on_text     *)
(* read from USER_STATE and PRESETS when they start.                       *)
(***************************************************************************)
TwoUsers == {"u1", "u2"}

InitUsers ==
    /\ AutoOff /\ ParseOff /\ LraOff /\ ReqOff
    /\ USER_STATE = [uid \in TwoUsers |-> None]
    /\ PRESETS \in {PresetsJson(d) : d \in DefaultsVariants}
    /\ env = LeanEnv

NextUsers ==
    \E uid \in TwoUsers :
        \/ start(uid)
        \/ settings_cmd(uid)
        \/ set_intensity(uid)
        \/ set_tone(uid)
        \/ set_fmt(uid)
        \/ toggle_auto(uid)

SpecUsers == InitUsers /\ [][NextUsers]_vars

(***************************************************************************)
(* Properties of the decision engines and of the chain builders            *)
(***************************************************************************)
InLoudness == IF engine = "smart" THEN report.LUFS ELSE report.I
InTilt == IF engine = "smart" THEN report.Tilt_dB ELSE report.tilt

\* a reference track of each pipeline
RefSmartReport ==
    analyze_file([loudness |-> -20000, LRA |-> 1000, tp_dbfs |-> -10, rms_db |-> -2000,
                  tilt |-> 0, sub_minus_bass |-> 300, corr |-> 900, width_ratio |-> 100])
RefBotReport ==
    analyze_track_pro([I |-> -20000, rms_db |-> -2000, tp_dbfs |-> -10, tilt |-> 0,
                       sub_minus_bass |-> 200])

\* what each engine decides for the reference track at every loudness and at
\* every tilt of the grids
TargetByLoudness ==
    [e \in {"smart", "bot"} |-> [x \in LoudnessGrid |->
        IF e = "smart" THEN decide_smart_params([RefSmartReport EXCEPT !.LUFS = x]).loudnorm.I
        ELSE decide_params_from_analysis([RefBotReport EXCEPT !.I = x]).loudnorm.I]]
ToneByTilt ==
    [e \in {"smart", "bot"} |-> [t \in TiltGrid |->
        IF e = "smart" THEN decide_smart_params([RefSmartReport EXCEPT !.Tilt_dB = t]).tone
        ELSE decide_params_from_analysis([RefBotReport EXCEPT !.tilt = t]).tone]]
TargetForLoudness(x) == TargetByLoudness[engine][x]
ToneForTilt(t) == ToneByTilt[engine][t]

StageNames(c) == [i \in 1..Len(c) |-> c[i].name]

\* C6: for every decided parameter set the built chain lists its stages in
\* the order [highpass?], bass (low shelf), treble (high shelf), acompressor,
\* [stereowiden?], loudnorm, an optional stage being present exactly when its
\* flag is set, and the loudness normalizer is the last stage.
C6_StageOrder ==
    aphase = "chained" =>
        /\ StageNames(chain) =
              (IF params.tone.hpf THEN <<"highpass">> ELSE <<>>)
              \o <<"bass", "treble", "acompressor">>
              \o (IF engine = "smart" /\ params.stereo_widen
                  THEN <<"stereowiden">> ELSE <<>>)
              \o <<"loudnorm">>
        /\ chain[Len(chain)].name = "loudnorm"

C6_Witness ==
    /\ aphase = "chained" /\ engine = "smart"
    /\ params.tone.hpf /\ params.stereo_widen
    /\ Len(chain) = 6

\* C7: whatever the measured loudness, LRA and true peak, the decided targets
\* lie in their clamp ranges: I in [-16.5, -11.5], LRA in [4, 10], TP in [-3, 0].
C7_TargetsClamped ==
    aphase = "decided" =>
        /\ params.loudnorm.I >= -1650 /\ params.loudnorm.I <= -1150
        /\ params.loudnorm.LRA >= 400 /\ params.loudnorm.LRA <= 1000
        /\ params.loudnorm.TP >= -300 /\ params.loudnorm.TP <= 0

\* a loudness below every control point, where the clamp, not the
\* interpolation, decides the target
C7_Witness ==
    /\ aphase = "decided" /\ engine = "smart"
    /\ report.LUFS = -1000000
    /\ params.loudnorm.I = -1650

\* C8: tilt > 0 implies high-shelf gain <= 0 and low-shelf gain >= 0, tilt < 0
\* implies high-shelf gain >= 0 and low-shelf gain <= 0, and the gains are
\* functions of the tilt alone, the high-shelf gain never rising and the
\* low-shelf gain never falling as tilt rises.
C8_CounterTilt ==
    aphase = "decided" =>
        /\ InTilt > 0 => params.tone.high_shelf.g <= 0 /\ params.tone.low_shelf.g >= 0
        /\ InTilt < 0 => params.tone.high_shelf.g >= 0 /\ params.tone.low_shelf.g <= 0
        /\ params.tone.high_shelf.g = ToneForTilt(InTilt).high_shelf.g
        /\ params.tone.low_shelf.g = ToneForTilt(InTilt).low_shelf.g
        /\ \A t \in TiltGrid :
              InTilt <= t =>
                  /\ ToneForTilt(t).high_shelf.g <= params.tone.high_shelf.g
                  /\ ToneForTilt(t).low_shelf.g >= params.tone.low_shelf.g

\* a bright track decided to a cut of the highs and a lift of the lows
C8_Witness ==
    /\ aphase = "decided"
    /\ InTilt = 200
    /\ params.tone.high_shelf.g < 0 /\ params.tone.low_shelf.g > 0

\* C9: the decided high-pass flag equals the sub-bass-excess flag and the
\* decided stereo-widen flag equals the narrow-stereo flag, which is true
\* exactly when correlation > 0.9 and width ratio < 0.1; correlation 0.98 with
\* width ratio 0.05 gives StereoNarrow and stereo_widen both true.
C9_FlagsCopied ==
    aphase = "decided" =>
        /\ engine = "bot" => params.tone.hpf = report.sub_excess
        /\ engine = "smart" =>
              /\ params.tone.hpf = report.SubExcess
              /\ params.stereo_widen = report.StereoNarrow
              /\ report.StereoNarrow = (measured.corr > 900 /\ measured.width_ratio < 100)
              /\ measured.corr = 980 /\ measured.width_ratio = 50
                    => report.StereoNarrow /\ params.stereo_widen

C9_Witness ==
    /\ aphase = "decided" /\ engine = "smart"
    /\ measured.corr = 980 /\ measured.width_ratio = 50
    /\ params.stereo_widen
    /\ measured.sub_minus_bass = 301 /\ params.tone.hpf

\* the requested boost, in thousandths of a LU
Boost(target, loudness) == 10 * target - loudness

\* C10 as stated: the decided target I never falls and the requested boost
\* (target I minus input loudness) never rises as the input loudness rises.
C10_BoostNeverRises ==
    aphase = "decided" =>
      /\ params.loudnorm.I = TargetForLoudness(InLoudness)
      /\ \A x \in LoudnessGrid :
            InLoudness <= x =>
                /\ params.loudnorm.I <= TargetForLoudness(x)
                /\ Boost(TargetForLoudness(x), x) <= Boost(params.loudnorm.I, InLoudness)

\* C10 as amended: the decided target I never falls as the input loudness
\* rises; the boost of a louder input exceeds that of a quieter one by at most
\* the 0.01 LU to which the target is rounded, and not at all when the two
\* inputs are 0.02 LU or more apart.
C10_BoostUpToRounding ==
    aphase = "decided" =>
      /\ params.loudnorm.I = TargetForLoudness(InLoudness)
      /\ \A x \in LoudnessGrid :
            InLoudness <= x =>
                /\ params.loudnorm.I <= TargetForLoudness(x)
                /\ Boost(TargetForLoudness(x), x) <= Boost(params.loudnorm.I, InLoudness) + 10
                /\ x >= InLoudness + 20 =>
                      Boost(TargetForLoudness(x), x) <= Boost(params.loudnorm.I, InLoudness)

\* a track whose target rounds down while that of a track 0.004 LU louder rounds up
C10_Witness ==
    /\ aphase = "decided"
    /\ InLoudness = -20022
    /\ \E x \in LoudnessGrid :
          /\ x > InLoudness
          /\ TargetForLoudness(x) > params.loudnorm.I
          /\ Boost(TargetForLoudness(x), x) > Boost(params.loudnorm.I, InLoudness)

\* C14: the decided high-shelf and low-shelf gains lie within +/-3 dB,
\* however extreme the tilt.
C14_ShelfGainsClamped ==
    aphase = "decided" =>
        /\ params.tone.high_shelf.g >= -300 /\ params.tone.high_shelf.g <= 300
        /\ params.tone.low_shelf.g >= -300 /\ params.tone.low_shelf.g <= 300

\* a tilt beyond the last control point, decided to the end value of the table
C14_Witness ==
    /\ aphase = "decided" /\ engine = "smart"
    /\ InTilt = -3200
    /\ params.tone.high_shelf.g = 300 /\ params.tone.low_shelf.g = -250

\* C15: every numeric field of the decided parameters lies in a fixed range
\* that does not depend on the input; for the compressor threshold the range
\* is taken to be the one the engine's compressor accepts, -60 dB to 0 dB.
C15_FieldsBounded ==
    aphase = "decided" =>
        /\ params.loudnorm.I >= -1650 /\ params.loudnorm.I <= -1150
        /\ params.loudnorm.LRA >= 400 /\ params.loudnorm.LRA <= 1000
        /\ params.loudnorm.TP >= -300 /\ params.loudnorm.TP <= 0
        /\ params.tone.high_shelf.g >= -300 /\ params.tone.high_shelf.g <= 300
        /\ params.tone.low_shelf.g >= -300 /\ params.tone.low_shelf.g <= 300
        /\ params.comp.ratio >= 100 /\ params.comp.ratio <= 300
        /\ params.comp.threshold_db >= -6000 /\ params.comp.threshold_db <= 0

InRms == IF engine = "smart" THEN report.RMS_dB ELSE report.rms_db
\* bot.analyze_track_pro reports no LRA and its compressor does not read one
InLra == IF engine = "smart" THEN report.LRA ELSE 1000

\* what each engine decides for the reference track at every LRA and RMS level
\* of the grids
CompByInput ==
    [e \in {"smart", "bot"} |-> [l \in LraGrid |-> [x \in RmsGrid |->
        IF e = "smart"
        THEN decide_smart_params([RefSmartReport EXCEPT !.LRA = l, !.RMS_dB = x]).comp
        ELSE decide_params_from_analysis([RefBotReport EXCEPT !.rms_db = x]).comp]]]
CompFor(l, x) == CompByInput[engine][l][x]

\* threshold minus RMS
ThresholdOffset(comp, rms_db) == comp.threshold_db - rms_db

RatioSteps == IF engine = "smart" THEN {130, 150, 180, 200} ELSE {140, 160, 180, 220}

\* C16 as stated: for fixed LRA the ratio never decreases and the threshold
\* offset never increases as RMS rises, for fixed RMS the ratio never
\* increases and the offset never decreases as LRA rises, and the ratio takes
\* only the fixed step values.
C16_CompressorSteps ==
    aphase = "decided" =>
        /\ params.comp = CompFor(InLra, InRms)
        /\ params.comp.ratio \in RatioSteps
        /\ \A x \in RmsGrid :
              InRms <= x =>
                  /\ params.comp.ratio <= CompFor(InLra, x).ratio
                  /\ ThresholdOffset(CompFor(InLra, x), x)
                        <= ThresholdOffset(params.comp, InRms)
        /\ \A l \in LraGrid :
              InLra <= l =>
                  /\ CompFor(l, InRms).ratio <= params.comp.ratio
                  /\ ThresholdOffset(CompFor(l, InRms), InRms)
                        >= ThresholdOffset(params.comp, InRms)

\* C16 as amended: the same, the threshold offset of a higher RMS level
\* exceeding that of a lower one by at most the 0.1 dB to which the threshold
\* is rounded.
C16_CompressorStepsUpToRounding ==
    aphase = "decided" =>
        /\ params.comp = CompFor(InLra, InRms)
        /\ params.comp.ratio \in RatioSteps
        /\ \A x \in RmsGrid :
              InRms <= x =>
                  /\ params.comp.ratio <= CompFor(InLra, x).ratio
                  /\ ThresholdOffset(CompFor(InLra, x), x)
                        <= ThresholdOffset(params.comp, InRms) + 10
        /\ \A l \in LraGrid :
              InLra <= l =>
                  /\ CompFor(l, InRms).ratio <= params.comp.ratio
                  /\ ThresholdOffset(CompFor(l, InRms), InRms)
                        >= ThresholdOffset(params.comp, InRms)

\* an RMS level whose threshold rounds down while that of a level 0.02 dB
\* higher, in the same band, rounds up
C16_Witness ==
    /\ aphase = "decided"
    /\ InRms = -2006
    /\ ThresholdOffset(params.comp, InRms) = 396
    /\ CompFor(InLra, -2004).ratio = params.comp.ratio
    /\ ThresholdOffset(CompFor(InLra, -2004), -2004) = 404

\* the clamp range of the target I of each engine
TargetRange == IF engine = "smart" THEN <<-1650, -1150>> ELSE <<-1650, -1200>>

\* C17 as stated: for integrated loudness -24 LU and tilt -1.0 dB the decided
\* target I lies toward the louder end of the clamp range (above its middle)
\* and the decided high-shelf gain is positive.
C17_QuietBassHeavy ==
    (aphase = "decided" /\ InLoudness = -24000 /\ InTilt = -100) =>
        /\ 2 * params.loudnorm.I > TargetRange[1] + TargetRange[2]
        /\ params.tone.high_shelf.g > 0

\* C17 as amended: for integrated loudness -24 LU and tilt -1.0 dB the decided
\* target I is at the quiet end of the range of targets (-16.5 for
\* smart_auto, -16.0 for bot), which is above the input loudness, and the
\* decided high-shelf gain is positive.
C17_QuietBassHeavyBoosted ==
    (aphase = "decided" /\ InLoudness = -24000 /\ InTilt = -100) =>
        /\ params.loudnorm.I = (IF engine = "smart" THEN -1650 ELSE -1600)
        /\ \A x \in LoudnessGrid : params.loudnorm.I <= TargetForLoudness(x)
        /\ 10 * params.loudnorm.I > InLoudness
        /\ params.tone.high_shelf.g = (IF engine = "smart" THEN 15 ELSE 62)
        /\ params.tone.high_shelf.g > 0

C17_Witness ==
    /\ aphase = "decided" /\ engine = "bot"
    /\ InLoudness = -24000 /\ InTilt = -100
    /\ params.loudnorm.I = -1600 /\ params.tone.high_shelf.g = 62

(***************************************************************************)
(* Properties of the loudness range                                        *)
(***************************************************************************)
Audible(b) == \A i \in 1..Len(b.sts) : b.sts[i] # Silent

\* the windows the range is taken over: those above the relative gate when
\* at least three of them are, all of them otherwise
GatedWindows(b) ==
    LET above == {i \in 1..Len(b.sts) : b.sts[i] > b.I - 20}
    IN  IF Cardinality(above) >= 3 THEN above ELSE 1..Len(b.sts)

\* the value at rank k, from 0, of the ascending order of the windows in S
RankedValue(b, S, k) ==
    CHOOSE v \in {b.sts[i] : i \in S} :
        /\ Cardinality({i \in S : b.sts[i] < v}) <= k
        /\ k < Cardinality({i \in S : b.sts[i] <= v})

\* the p-th percentile, times 20, of the windows in S: the value at rank
\* (|S| - 1) * p / 100, interpolated between the two nearest ranks
PercentileOf(b, S, p) ==
    LET pos == (Cardinality(S) - 1) * p
        lo == pos \div 100
        hi == IF pos % 100 = 0 THEN lo ELSE lo + 1
    IN  20 * RankedValue(b, S, lo)
        + ((pos % 100) * (RankedValue(b, S, hi) - RankedValue(b, S, lo))) \div 5

GatedRange(b) ==
    IF b.seconds < 3 THEN 0
    ELSE LET d == PercentileOf(b, GatedWindows(b), 95)
                  - PercentileOf(b, GatedWindows(b), 10)
         IN  IF d > 0 THEN d ELSE 0

\* C18: the loudness range of a buffer is max(0, p95 - p10) of the short-term
\* values of its 3-second windows at 1-second hops, taken over the windows
\* above (integrated loudness - 20 LU) when at least 3 of them are and over
\* all windows otherwise; it is never negative, and 0 for a buffer shorter
\* than one window.
C18_GatedPercentileRange ==
    (lphase = "returned" /\ Audible(lra_in)) =>
        /\ lra_out = GatedRange(lra_in)
        /\ lra_out >= 0

\* the range analyze_mastering.loudness_range_lra returns is the gated one
GatedInAnalyzeMastering ==
    (lphase = "returned" /\ lra_impl = "analyze_mastering") =>
        lra_out = GatedRange(lra_in)

\* the range of either function is never negative, and 0 below one window
RangeNonNegative ==
    lphase = "returned" =>
        /\ lra_out >= 0
        /\ lra_in.seconds < 3 => lra_out = 0

(***************************************************************************)
(* Properties of the parser                                                *)
(***************************************************************************)
\* the brace depth after the first i tokens, a closing brace with no open
\* one being passed over
RECURSIVE BraceDepth(_, _)
BraceDepth(text, i) ==
    IF i = 0 THEN 0
    ELSE LET before == BraceDepth(text, i - 1)
         IN  IF text[i].t = "{" THEN before + 1
             ELSE IF text[i].t = "}" /\ before > 0 THEN before - 1
             ELSE before

\* text[s..e] is a balanced brace block at the top level: it opens at depth
\* 0 and e is the first place after s where the depth is 0 again
IsTopLevelBlock(text, s, e) ==
    /\ s < e /\ text[s].t = "{" /\ text[e].t = "}"
    /\ BraceDepth(text, s - 1) = 0
    /\ BraceDepth(text, e) = 0
    /\ \A j \in s..(e - 1) : BraceDepth(text, j) > 0

ParsingBlocks(text) ==
    {b \in (1..Len(text)) \X (1..Len(text)) :
        IsTopLevelBlock(text, b[1], b[2]) /\ json_loads(SubSeq(text, b[1], b[2])).ok}

LastParsingBlock(text) ==
    LET blocks == ParsingBlocks(text)
    IN  IF blocks = {} THEN NoObject
        ELSE LET last == CHOOSE b \in blocks : \A c \in blocks : c[2] <= b[2]
             IN  json_loads(SubSeq(text, last[1], last[2]))

TwoBlocks == <<LB, Mem("a", "1"), RB, LB, Mem("b", "2"), RB>>

\* C2: the parser returns the parsed form of the last balanced top-level brace
\* block that parses, whatever follows it, and no result when no block
\* parses; for {"a":1} followed by {"b":2} it returns the parsed second block.
C2_LastParsingBlock ==
    pphase = "returned" =>
        /\ presult = LastParsingBlock(ptext)
        /\ ptext = TwoBlocks => presult = [ok |-> TRUE, val |-> {[path |-> <<"b">>, v |-> "2"]}]

\* a block that parses followed by a block that does not
C2_Witness ==
    /\ pphase = "returned"
    /\ ptext = <<LB, Mem("a", "1"), RB, LB, Text("x"), RB>>
    /\ presult = [ok |-> TRUE, val |-> {[path |-> <<"a">>, v |-> "1"]}]

(***************************************************************************)
(* Properties of the two-pass normalizer                                   *)
(***************************************************************************)
IsPrefixOf(p, q) == Len(p) <= Len(q) /\ SubSeq(q, 1, Len(p)) = p

\* the steps of a run that has not failed
StepsOk(r) ==
    LET st == norm[r].steps
    IN  IF st # <<>> /\ Last(st) = "Failed" THEN SubSeq(st, 1, Len(st) - 1) ELSE st

RunOrders ==
    {<<"MeasurePass", "ParseMeasurement", "ApplyPass", "Done">>,
     <<"MeasurePass", "ParseMeasurement", "Degraded", "Done">>}

ProcsOfRun(r, k) == {i \in 1..Len(procs[r]) : procs[r][i].run = k}

\* C1: in every run of the two-pass normalizer the steps occur in the order
\* MeasurePass, ParseMeasurement, then ApplyPass or Degraded, then Done; the
\* second engine invocation never starts before the first has terminated and
\* its text has been parsed, the invocations of a request never overlap, and
\* a run invokes the engine at most twice.
C1_StepOrder ==
    \A r \in Reqs :
        /\ \E o \in RunOrders : IsPrefixOf(StepsOk(r), o)
        /\ \A i \in 1..Len(procs[r]) :
              procs[r][i].pass = 2 =>
                  /\ i > 1
                  /\ procs[r][i - 1].pass = 1 /\ procs[r][i - 1].run = procs[r][i].run
                  /\ procs[r][i - 1].status = "exited"
                  /\ procs[r][i].run = norm[r].run =>
                        /\ IsPrefixOf(<<"MeasurePass", "ParseMeasurement">>, norm[r].steps)
                        /\ norm[r].js = _extract_last_json_block(procs[r][i - 1].err)
        /\ \A i, j \in 1..Len(procs[r]) :
              procs[r][i].status = "running" /\ procs[r][j].status = "running" => i = j
        /\ \A k \in 1..2 : Cardinality(ProcsOfRun(r, k)) <= 2

\* a run that went through all four steps, with both its processes ended
C1_Witness ==
    \E r \in Reqs :
        /\ norm[r].steps = <<"MeasurePass", "ParseMeasurement", "ApplyPass", "Done">>
        /\ norm[r].run = 2
        /\ Len(procs[r]) = 4
        /\ \A i \in 1..4 : procs[r][i].status = "exited"

LoudnormStage(c) == c[CHOOSE i \in 1..Len(c) : c[i].name = "loudnorm"]

ArgOf(stage, key) == stage.args[LastArgIndex(stage, key)][2]

\* C3: whenever the parser yields a parsed block, the normalizer stage of the
\* chain used in ApplyPass contains the original targets I, TP and LRA, as
\* decided and as present in the input chain, together with the measured
\* loudness, range, true peak, gating threshold and offset of that block.
C3_TargetsKept ==
    \A r \in Reqs :
        norm[r].nstate = "ApplyPass" =>
            LET ln == LoudnormStage(Last(procs[r]).af)
                orig == LoudnormStage(req[r].chain)
                js == norm[r].js
            IN  /\ ArgOf(ln, "I") = ArgOf(orig, "I")
                /\ ArgOf(ln, "I") = Fmt(req[r].P.loudnorm.I)
                /\ ArgOf(ln, "TP") = ArgOf(orig, "TP")
                /\ ArgOf(ln, "LRA") = ArgOf(orig, "LRA")
                /\ ArgOf(ln, "measured_I") = JsGet(js, "input_i", "-1400")
                /\ ArgOf(ln, "measured_LRA") = JsGet(js, "input_lra", "700")
                /\ ArgOf(ln, "measured_TP") = JsGet(js, "input_tp", "-120")
                /\ ArgOf(ln, "measured_thresh") = JsGet(js, "input_thresh", "-2600")
                /\ ArgOf(ln, "offset") = JsGet(js, "target_offset", "0")

NoMeasuredArgs(c) ==
    \A i \in 1..Len(c) :
        \A key \in {"measured_I", "measured_LRA", "measured_TP", "measured_thresh", "offset"} :
            ~HasArg(c[i], key)

\* C4: if no block of the first pass's text parses, the normalizer enters
\* Degraded, the rendering invocation uses the original chain, with no
\* measured value injected, and the run fails only if the engine exits
\* non-zero.
C4_Degraded ==
    \A r \in Reqs :
        /\ (norm[r].js # None /\ LastParsingBlock(norm[r].text) = NoObject) =>
              "Degraded" \in {norm[r].steps[i] : i \in 1..Len(norm[r].steps)}
        /\ "Degraded" \in {norm[r].steps[i] : i \in 1..Len(norm[r].steps)} =>
              /\ norm[r].pass2_ln = req[r].chain
              /\ Last(procs[r]).pass = 2
              /\ Last(procs[r]).af = req[r].chain
              /\ NoMeasuredArgs(Last(procs[r]).af)
              /\ ArgOf(LoudnormStage(Last(procs[r]).af), "I") = Fmt(req[r].P.loudnorm.I)
              /\ norm[r].nstate = "Failed" => Last(procs[r]).rc # 0
              /\ (Last(procs[r]).status = "exited" /\ Last(procs[r]).rc = 0) =>
                    norm[r].nstate \in {"Degraded", "Done"}

\* a text whose only block does not parse, and the run completed
C4_Witness ==
    \E r \in Reqs :
        /\ norm[r].text = TextBroken
        /\ norm[r].steps = <<"MeasurePass", "ParseMeasurement", "Degraded", "Done">>
        /\ req[r].pc = "finished" /\ req[r].reply.kind = "document"

Contains(hay, needle) ==
    \E i \in 0..(Len(hay) - Len(needle)) : SubSeq(hay, i + 1, i + Len(needle)) = needle

FailedProcs(r) ==
    {i \in 1..Len(procs[r]) : procs[r][i].status = "exited" /\ procs[r][i].rc # 0}

\* C5: a non-zero exit status of either engine invocation is fatal to the
\* request: after a failed first pass no second pass is invoked, no
\* invocation is retried, and the error surfaced to the caller contains the
\* captured diagnostic text of the failing pass.
C5_FailureFatal ==
    \A r \in Reqs :
        \A i \in FailedProcs(r) :
            /\ i = Len(procs[r])
            /\ norm[r].nstate \in {"MeasurePass", "ApplyPass", "Degraded", "Failed"}
            /\ req[r].reply.kind # "document"
            /\ req[r].pc = "raised" => Contains(req[r].exc, procs[r][i].err)
            /\ req[r].pc = "finished" =>
                  /\ req[r].reply.kind = "error"
                  /\ Contains(req[r].reply.text, procs[r][i].err)

\* the first pass failed, nothing followed it, and the reply carries its text
C5_Witness ==
    \E r \in Reqs :
        /\ Len(procs[r]) = 1 /\ procs[r][1].rc # 0
        /\ procs[r][1].err = <<Text("Conversion failed!")>>
        /\ req[r].pc = "finished"
        /\ req[r].reply.text =
              <<Text("Error: "), Text("ffmpeg pass1 failed: "), Text("Conversion failed!")>>

\* the request has passed the analysis, in auto mode, with audio that is
\* empty after the trim
EmptyAfterTrim(r) ==
    /\ req[r].pc \notin {"idle", "accepted", "link_accepted", "downloaded"}
    /\ req[r].file # None /\ req[r].file.ext_ok /\ ~req[r].file.too_big
    /\ req[r].file.empty
    /\ req[r].auto
    /\ req[r].exc # <<Text("download failed")>>

\* C13: when the decoded audio is empty after silence trimming, the request
\* fails with a descriptive error before any decision, chain building or
\* engine invocation takes place, and nothing is retried.
C13_EmptyAudioFails ==
    \A r \in Reqs :
        EmptyAfterTrim(r) =>
            /\ req[r].pc \in {"raised", "finished"}
            /\ req[r].exc = <<Text("Empty audio after trim")>>
            /\ req[r].A = None /\ req[r].P = None /\ req[r].chain = <<>>
            /\ procs[r] = <<>> /\ norm[r].run = 0 /\ norm[r].steps = <<>>
            /\ req[r].pc = "finished" =>
                  /\ req[r].reply.kind = "error"
                  /\ Contains(req[r].reply.text, <<Text("Empty audio after trim")>>)
                  /\ req[r].sent = <<>>

\* a request with empty audio has ended with the error of the analysis
C13_Witness ==
    \E r \in Reqs :
        /\ EmptyAfterTrim(r)
        /\ req[r].pc = "finished"
        /\ req[r].reply.text = <<Text("Error: "), Text("Empty audio after trim")>>

\* the stages of two chains agree wherever the first has no normalizer
SameOtherStages(c, d) ==
    /\ Len(d) = Len(c)
    /\ \A k \in 1..Len(c) :
          IF c[k].name = "loudnorm" THEN d[k].name = "loudnorm" ELSE d[k] = c[k]

\* the arguments of two stages agree but for the value of print_format
SameButPrintFormat(a, b) ==
    /\ Len(b.args) = Len(a.args)
    /\ \A j \in 1..Len(a.args) :
          \/ b.args[j] = a.args[j]
          \/ a.args[j][1] = "print_format" /\ b.args[j][1] = "print_format"

\* C23: the two passes differ only in the normalizer stage: the chain of
\* MeasurePass differs from the input chain only in the print format of the
\* loudnorm stage, and the chain of ApplyPass, or of the degraded render,
\* has exactly the non-normalizer stages of the input chain, in their order.
C23_OnlyNormalizerDiffers ==
    \A r \in Reqs :
        \A i \in 1..Len(procs[r]) :
            LET af == procs[r][i].af
                c == req[r].chain
            IN  /\ procs[r][i].pass \in {1, 2} => SameOtherStages(c, af)
                /\ procs[r][i].pass = 1 =>
                      /\ \A k \in 1..Len(c) : SameButPrintFormat(c[k], af[k])
                      /\ ArgOf(LoudnormStage(af), "print_format") = "json"

\* a run has measured and applied: both chains differ from the input chain
\* and from each other, and the input chain has stages before its normalizer
C23_Witness ==
    \E r \in Reqs :
        /\ norm[r].steps = <<"MeasurePass", "ParseMeasurement", "ApplyPass", "Done">>
        /\ Len(req[r].chain) >= 3
        /\ procs[r][1].af # req[r].chain
        /\ procs[r][2].af # req[r].chain
        /\ procs[r][2].af # procs[r][1].af

(***************************************************************************)
(* Properties of the bot as a whole                                        *)
(***************************************************************************)
HasRun(r, n) == \E i \in 1..Len(procs[r]) : procs[r][i].run = n

\* the first engine process of the n-th render of the request
FirstOfRun(r, n) ==
    procs[r][CHOOSE i \in 1..Len(procs[r]) :
                /\ procs[r][i].run = n
                /\ \A j \in 1..(i - 1) : procs[r][j].run # n]

Mp3Phases == {"two_pass_mp3", "preset_mp3", "rendered_mp3"}

\* what the handler holds of the settings, of the analysis and of the decision
Computed(rq) == <<rq.inten, rq.tone, rq.fmtk, rq.auto, rq.A, rq.P, rq.chain>>

FallbackState ==
    \A r \in Reqs :
        /\ Len(req[r].sent) <= 1
        /\ (req[r].pc = "finished" /\ req[r].reply.kind = "document")
              <=> Len(req[r].sent) = 1
        /\ HasRun(r, 2) =>
              /\ FirstOfRun(r, 2).af = FirstOfRun(r, 1).af
              /\ req[r].auto =>
                    FirstOfRun(r, 2).af = _force_print_format_json(req[r].chain)
              /\ ~req[r].auto =>
                    FirstOfRun(r, 2).af = build_ffmpeg_chain(req[r].inten, req[r].tone)
              /\ \A i \in 1..Len(procs[r]) :
                    (procs[r][i].run = 2 /\ procs[r][i].pass # 1) =>
                        procs[r][i].out = output_args("mp3_320")
              /\ req[r].sent \in {<<>>, <<"mastered_320.mp3">>}

\* C19: when the rendered file exceeds the send-size ceiling, the request
\* renders again to MP3 with the chain of the first render: analysis and
\* decision are not run again, the settings are not read again, the oversize
\* file is never sent, and a request that succeeds delivers exactly one file.
C19_OversizeFallback ==
    /\ []FallbackState
    /\ [][\A r \in Reqs :
            req'[r].pc \in Mp3Phases => Computed(req'[r]) = Computed(req[r])]_vars

\* a preset render was oversize and the MP3 was delivered, rendered with the
\* tone the request had read, after the user had stored another one
C19_Witness ==
    \E r \in Reqs :
        /\ req[r].pc = "finished" /\ req[r].sent = <<"mastered_320.mp3">>
        /\ ~req[r].auto
        /\ HasRun(r, 2)
        /\ FirstOfRun(r, 2).af = build_ffmpeg_chain(req[r].inten, req[r].tone)
        /\ user_settings(req[r].user).tone # req[r].tone

\* the same in auto mode, by link
C19_WitnessAuto ==
    \E r \in Reqs :
        /\ req[r].pc = "finished" /\ req[r].sent = <<"mastered_320.mp3">>
        /\ req[r].auto /\ req[r].kind = "link"
        /\ HasRun(r, 2)

\* C12: the preset configuration is read-only after it is loaded at startup:
\* no command, callback or request of any user ever changes PRESETS,
\* PRESETS["defaults"] included.
C12_PresetsReadOnly == [][PRESETS' = PRESETS]_vars

\* the tables of the presets, which nothing writes, do stay as loaded
TablesReadOnly ==
    [][/\ PRESETS'.intensity = PRESETS.intensity
       /\ PRESETS'.tone = PRESETS.tone]_vars

\* the settings a handler holds in its locals, and those stored for a user
Locals(rq) == <<rq.inten, rq.tone, rq.fmtk, rq.auto>>

StoredLocals(uid) ==
    LET st == user_settings(uid)
    IN  <<st.intensity, st.tone, st.format, dict_get(st, "auto", TRUE)>>

InFlight(rq) == rq.pc \notin {"idle", "finished"}

\* the settings an in-flight request works with: those it has read, or,
\* before it has read any, those it would read now
Used(r) ==
    IF req[r].pc = "link_accepted" THEN StoredLocals(req[r].user) ELSE Locals(req[r])

SettingsChange == USER_STATE' # USER_STATE \/ PRESETS' # PRESETS

\* C20 as stated: the settings of a request are read once when it starts; a
\* change of the settings of its user while the request waits on the
\* download or on the engine never changes the chain, the mode or the format
\* the request uses.
C20_ReadAtStart ==
    [][\A r \in Reqs :
        (InFlight(req[r]) /\ SettingsChange) => Used(r)' = Used(r)]_vars

\* the engine process a step has spawned for the request, if any
Spawned(r) == IF Len(procs'[r]) > Len(procs[r]) THEN {Last(procs'[r])} ELSE {}

\* what does hold: on_audio reads the settings when the request starts and
\* on_text when the download by link has ended; from its read on, no step,
\* a change of the stored settings included, changes the settings, the
\* chain, the mode or the format the request uses, in the MP3 fallback too.
ReadOnce ==
    [][\A r \in Reqs :
        /\ (req[r].pc = "idle" /\ req'[r].pc = "accepted") =>
              Locals(req'[r]) = StoredLocals(req'[r].user)
        /\ (req[r].pc = "link_accepted" /\ req'[r].pc = "downloaded") =>
              Locals(req'[r]) = StoredLocals(req[r].user)
        /\ req[r].pc \notin {"idle", "link_accepted"} =>
              /\ Locals(req'[r]) = Locals(req[r])
              /\ req[r].chain # <<>> => req'[r].chain = req[r].chain
              /\ \A p \in Spawned(r) :
                    /\ p.pass = 0 <=> ~req[r].auto
                    /\ p.pass = 0 =>
                          p.af = build_ffmpeg_chain(req[r].inten, req[r].tone)
                    /\ p.pass = 1 => p.af = _force_print_format_json(req[r].chain)
                    /\ p.pass # 1 =>
                          p.out = output_args(IF p.run = 1 THEN req[r].fmtk ELSE "mp3_320")]_vars

\* a request by file has delivered in the format and mode it had read at
\* its start, the user having stored another format and mode meanwhile
ReadOnceByFile ==
    \E r \in Reqs :
        /\ req[r].kind = "audio" /\ req[r].pc = "finished"
        /\ req[r].auto /\ req[r].fmtk = "wav16" /\ req[r].sent = <<"mastered.wav">>
        /\ USER_STATE[req[r].user] # None
        /\ StoredLocals(req[r].user)[3] = "mp3_320"
        /\ ~StoredLocals(req[r].user)[4]

\* a request by link works in preset mode, its user having switched auto
\* off while the link was being downloaded
ChangedDuringLinkDownload ==
    \E r \in Reqs :
        /\ req[r].kind = "link" /\ req[r].pc = "preset"
        /\ ~req[r].auto

\* C11: the session state is serialized per user: for any user at most one
\* request, by file or by link, is in flight at a time, and no change of
\* the settings of that user interleaves with a request of the user that is
\* in flight.
C11_SerializedPerUser ==
    /\ [](\A r1, r2 \in DOMAIN req :
            (InFlight(req[r1]) /\ InFlight(req[r2]) /\ req[r1].user = req[r2].user)
                => r1 = r2)
    /\ [][\A r \in DOMAIN req :
            InFlight(req[r]) => StoredLocals(req[r].user)' = StoredLocals(req[r].user)]_vars

\* two requests of one user await their engines at the same time
TwoInFlight ==
    \E r1, r2 \in DOMAIN req :
        /\ r1 # r2 /\ req[r1].user = req[r2].user
        /\ procs[r1] # <<>> /\ Last(procs[r1]).status = "running"
        /\ procs[r2] # <<>> /\ Last(procs[r2]).status = "running"

(***************************************************************************)
(* Properties of the settings of several users                             *)
(***************************************************************************)
\* the intensity, tone, format and mode a request of the user would use
WouldUse(uid) ==
    LET rq == ReadSettings(IdleRequest, uid)
    IN  [inten |-> rq.inten, tone |-> rq.tone, fmtk |-> rq.fmtk, auto |-> rq.auto]

\* the step is a setting change made by the user
ChangeBy(uid) ==
    set_intensity(uid) \/ set_tone(uid) \/ set_fmt(uid) \/ toggle_auto(uid)

\* C21: a setting change made by one user (set_intensity, set_tone, set_fmt,
\* toggle_auto) never changes the intensity, tone, format or auto mode that
\* a request of a different user would use, whether that user has a stored
\* record or falls back to the defaults.
C21_SettingsIsolated ==
    [][\A u \in TwoUsers : ChangeBy(u) =>
          \A v \in TwoUsers \ {u} : WouldUse(v)' = WouldUse(v)]_vars

\* what holds: a change by a user whose record is a dict of its own (made
\* by start or settings_cmd) leaves every other user's settings alone
IsolatedWithOwnRecord ==
    [][\A u \in TwoUsers :
          (ChangeBy(u) /\ USER_STATE[u] # None /\ USER_STATE[u] # Shared) =>
              /\ PRESETS' = PRESETS
              /\ \A v \in TwoUsers \ {u} : WouldUse(v)' = WouldUse(v)]_vars

\* both users refer to the defaults dict after each pressed Auto once
BothShareDefaults == \A u \in TwoUsers : USER_STATE[u] = Shared

\* C22: toggle_auto always inverts the mode the next request of the user
\* would run in: a request sent just before the toggle and one sent just
\* after run in opposite modes, also for a user with no stored state; hence
\* two consecutive toggles restore the mode.
C22_ToggleInverts ==
    [][\A u \in TwoUsers :
          toggle_auto(u) => (WouldUse(u).auto)' = ~(WouldUse(u).auto)]_vars

\* what holds: the toggle inverts the mode when the dict it reads, the
\* user's own or the defaults, has an "auto" entry
InvertsStoredMode ==
    [][\A u \in TwoUsers :
          (toggle_auto(u) /\ "auto" \in DOMAIN user_settings(u)) =>
              (WouldUse(u).auto)' = ~(WouldUse(u).auto)]_vars

\* the user has no entry and the defaults have no "auto" entry: a request
\* would run in auto mode
AutoByOmission ==
    \E u \in TwoUsers :
        /\ USER_STATE[u] = None
        /\ "auto" \notin DOMAIN PRESETS.defaults
        /\ WouldUse(u).auto

=============================================================================
